---- MODULE Spec2Model ----
(***************************************************************************)
(* selenium-wire-2: the interception pipeline (seleniumwire2/handler.py)   *)
(* and the proxy object that owns its configuration                        *)
(* (seleniumwire2/server.py, seleniumwire2/inspect.py).                    *)
(*                                                                         *)
(* The proxy engine (mitmproxy) drives the add-on hooks of                 *)
(* InterceptRequestHandler once per flow, in the order                     *)
(*   requestheaders, request, responseheaders, response,                   *)
(* then websocket_message for each message of an upgraded flow.  Each hook *)
(* runs to completion on the engine's event loop, so one hook call is one  *)
(* action.  The caller's thread assigns include/exclude lists and          *)
(* interceptors and clears the store between any two hook calls.           *)
(***************************************************************************)
EXTENDS Integers, Sequences, FiniteSets, TLC

(***************************************************************************)
(* Bounds of the model.                                                    *)
(***************************************************************************)
MaxFlows == 2
MaxWsMessages == 2
MaxCalls == 2
MaxTimeout == 2
MaxSize == 2
MaxCaptures == 3
MaxRules == 2

Flows == 1..MaxFlows

(***************************************************************************)
(* URLs and patterns are sequences of tokens.  ".*" is the only regular    *)
(* expression operator the model knows; every other token is a literal.    *)
(***************************************************************************)
ANY == ".*"

U_a == <<"http://", "a">>
U_b == <<"https://", "b">>
U_wss == <<"wss://", "a">>
U_q == <<"http://", "wss://">>

\* URLs a flow can arrive with, and URLs an interceptor can write.
ReceivedUrls == {U_a, U_b}
AllUrls == {U_a, U_b, U_wss, U_q, <<"https://", "a">>, <<"http://", "https://">>}

P_http == <<"http://", ANY>>
P_b == <<ANY, "b">>
P_catchall == <<ANY>>
P_empty == <<>>

\* s without its first n elements
Drop(s, n) == SubSeq(s, n + 1, Len(s))

\* re.match(pattern, url): the pattern matches a prefix of the url.
RECURSIVE ReMatch(_, _)
ReMatch(pat, url) ==
  IF pat = <<>> THEN TRUE
  ELSE IF Head(pat) = ANY
       THEN \E k \in 0..Len(url) : ReMatch(Tail(pat), Drop(url, k))
       ELSE /\ url # <<>>
            /\ Head(url) = Head(pat)
            /\ ReMatch(Tail(pat), Tail(url))

\* re.search(pattern, url): the pattern matches somewhere in the url.
ReSearch(pat, url) == \E k \in 0..Len(url) : ReMatch(pat, Drop(url, k))

\* `x in list`
InList(x, list) == \E i \in 1..Len(list) : list[i] = x

\* A scope filter in which a matching include pattern decides before the
\* exclude list is looked at.
_should_capture_include_decides(method, url, ignore, include, exclude) ==
  IF method \in ignore THEN FALSE
  ELSE IF include = <<>> /\ exclude = <<>> THEN TRUE
  ELSE IF \E i \in 1..Len(include) : ReMatch(include[i], url) THEN TRUE
  ELSE IF include # <<>> THEN FALSE
  ELSE ~(\E i \in 1..Len(exclude) : ReMatch(exclude[i], url))

\* A scope filter without the ignored-method test.
_should_capture_any_method(method, url, ignore, include, exclude) ==
  IF include = <<>> /\ exclude = <<>> THEN TRUE
  ELSE IF InList(P_catchall, exclude) THEN FALSE
  ELSE IF include # <<>> /\ ~(\E i \in 1..Len(include) : ReMatch(include[i], url))
       THEN FALSE
  ELSE IF \E i \in 1..Len(exclude) : ReMatch(exclude[i], url) THEN FALSE
  ELSE TRUE

\* InterceptRequestHandler._should_capture
_should_capture(method, url, ignore, include, exclude) ==
  IF method \in ignore THEN FALSE
  ELSE IF include = <<>> /\ exclude = <<>> THEN TRUE
  ELSE IF InList(P_catchall, exclude) THEN FALSE
  ELSE IF include # <<>> /\ ~(\E i \in 1..Len(include) : ReMatch(include[i], url))
       THEN FALSE
  ELSE IF \E i \in 1..Len(exclude) : ReMatch(exclude[i], url) THEN FALSE
  ELSE TRUE

(***************************************************************************)
(* Headers.  A header list is a sequence of <<name, value>> pairs; a value *)
(* is a sequence of atoms, so that folding duplicate names (mitmproxy's    *)
(* Headers.items() without multi=True joins their values) is visible.  An  *)
(* atom "int:1" is the Python integer 1, which str() renders as "1".       *)
(***************************************************************************)
NoBody == "<None>"

H_plain == << <<"Accept-Encoding", <<"identity">> >> >>
H_dup == << <<"Cookie", <<"1">> >>, <<"Cookie", <<"2">> >> >>
H_resp == << <<"Set-Cookie", <<"1">> >>, <<"Set-Cookie", <<"2">> >> >>
H_mock == << <<"a", <<"b">> >> >>

RECURSIVE Flatten(_)
Flatten(ss) == IF ss = <<>> THEN <<>> ELSE Head(ss) \o Flatten(Tail(ss))

\* flow.request.headers.items(): one pair per name, duplicate values joined.
RECURSIVE items(_)
items(h) ==
  IF h = <<>> THEN <<>>
  ELSE LET k == h[1][1]
           same == SelectSeq(h, LAMBDA x : x[1] = k)
           rest == SelectSeq(h, LAMBDA x : x[1] # k)
       IN  << <<k, Flatten([i \in 1..Len(same) |-> same[i][2]])>> >> \o items(rest)

\* A response view that folds the values of a repeated name into one pair.
items_folded(h) == items(h)

\* flow.response.headers.items(multi=True): every pair, in order.
items_multi(h) == h

\* str(v) of a header value
str(atom) == IF atom = "int:1" THEN "1" ELSE atom

\* InterceptRequestHandler._to_headers_obj
_to_headers_obj(headers) ==
  [i \in 1..Len(headers) |->
     <<headers[i][1], [j \in 1..Len(headers[i][2]) |-> str(headers[i][2][j])]>>]

\* str.replace("wss://", "https://", 1): the first occurrence, wherever it is.
RECURSIVE replace_wss_once(_)
replace_wss_once(url) ==
  IF url = <<>> THEN <<>>
  ELSE IF Head(url) = "wss://" THEN <<"https://">> \o Tail(url)
  ELSE <<Head(url)>> \o replace_wss_once(Tail(url))

\* InterceptRequestHandler._create_request: the snapshot of the live request.
_create_request(live) ==
  [method |-> live.method,
   url |-> live.url,
   headers |-> items(live.headers),
   body |-> IF live.raw_content = NoBody THEN "" ELSE live.raw_content]

\* InterceptRequestHandler._create_response: the snapshot of the live response.
_create_response(live, certificate_list) ==
  [status_code |-> live.status_code,
   reason |-> live.reason,
   headers |-> items_multi(live.headers),
   body |-> live.raw_content,
   certificate_list |-> certificate_list]

\* mitmproxy's reason phrase of a status code.
ReasonPhrase(status_code) ==
  CASE status_code = 200 -> "OK"
    [] status_code = 201 -> "Created"
    [] status_code = 404 -> "Not Found"
    [] OTHER -> "Unknown"

\* str(len(content)) for the bodies of the model, all of one byte or none.
len_str(content) == IF content = "" THEN "0" ELSE "1"

\* MitmResponse.make(status_code, content, headers): sets the headers, then
\* the content, which appends a content-length header.
MitmResponse_make(status_code, content, headers) ==
  [status_code |-> status_code,
   reason |-> ReasonPhrase(status_code),
   headers |-> headers \o << <<"content-length", <<len_str(content)>> >> >>,
   raw_content |-> content,
   stream |-> FALSE]

(***************************************************************************)
(* Inputs of the model: what the engine and the user code can supply.      *)
(***************************************************************************)
\* Requests as the engine receives them; `stream` is the streaming setting
\* the engine (or another add-on) chose, `upgrade` whether the exchange
\* becomes a WebSocket stream after its response.
Inputs ==
  { [method |-> "GET", url |-> U_a, headers |-> H_plain, raw_content |-> NoBody,
     stream |-> TRUE, upgrade |-> FALSE],
    [method |-> "GET", url |-> U_b, headers |-> H_dup, raw_content |-> "x",
     stream |-> FALSE, upgrade |-> TRUE],
    [method |-> "OPTIONS", url |-> U_a, headers |-> H_plain, raw_content |-> NoBody,
     stream |-> TRUE, upgrade |-> FALSE] }

\* Responses the upstream server can send, with the TLS certificates of the
\* server connection.
UpstreamResponses ==
  { [status_code |-> 200, reason |-> "OK", headers |-> H_resp, raw_content |-> "r",
     stream |-> TRUE, certificate_list |-> <<"cert">>] }

\* What a request interceptor can do with the snapshot it is handed.
RequestInterceptorOutcomes == {"pass", "rewrite", "redirect", "mock", "raise"}

\* What a response interceptor can do with the snapshot it is handed.
ResponseInterceptorOutcomes == {"pass", "rewrite", "raise"}

\* request.create_response(status_code=200, headers={"a": "b"}, body=...)
MockResponse ==
  [status_code |-> 200, reason |-> "OK", headers |-> H_mock, body |-> "m",
   certificate_list |-> <<>>]

\* The request snapshot after the user's request interceptor returned.
RequestInterceptorResult(outcome, request) ==
  CASE outcome = "rewrite" ->
         [method |-> "POST", url |-> U_wss,
          headers |-> request.headers \o << <<"c", <<"int:1">> >> >>,
          body |-> "y"]
    [] outcome = "redirect" -> [request EXCEPT !.url = U_q]
    [] OTHER -> request

\* The response snapshot after the user's response interceptor returned.
ResponseInterceptorResult(outcome, response) ==
  CASE outcome = "rewrite" ->
         [response EXCEPT !.status_code = 201, !.reason = "Created",
                          !.headers = @ \o << <<"c", <<"int:1">> >> >>,
                          !.body = "z"]
    [] OTHER -> response

\* Options the proxy can be constructed with (SeleniumWireOptions).
NoUpstream == "None"
ProxyConfigs == {NoUpstream, "http://upstream:8080"}

\* Listen addresses: the default host, the default port 0 (the operating
\* system assigns a port when the socket is bound), and a configured port.
DefaultHost == "127.0.0.1"
DefaultPort == 0
ConfiguredPort == 8089
EphemeralPorts == {49152, 49153}

OptionChoices ==
  { [ignore_http_methods |-> {"OPTIONS"}, enable_har |-> FALSE, disable_capture |-> FALSE,
     upstream_proxy |-> NoUpstream, host |-> DefaultHost, port |-> DefaultPort,
     request_storage |-> "disk", request_storage_max_size |-> <<>>],
    [ignore_http_methods |-> {"OPTIONS", "POST"}, enable_har |-> TRUE,
     disable_capture |-> TRUE, upstream_proxy |-> NoUpstream,
     host |-> DefaultHost, port |-> ConfiguredPort,
     request_storage |-> "disk", request_storage_max_size |-> <<>>] }

\* Options that select the in-memory store with a size bound;
\* request_storage_max_size is <<>> for None, <<n>> for n.
StoreOptionChoices ==
  { [ignore_http_methods |-> {"OPTIONS"}, enable_har |-> TRUE, disable_capture |-> FALSE,
     upstream_proxy |-> NoUpstream, host |-> DefaultHost, port |-> DefaultPort,
     request_storage |-> "memory", request_storage_max_size |-> <<n>>] : n \in 1..MaxSize }

\* Values the caller assigns to include_urls / exclude_urls: a list of
\* patterns, or a lone string.
IncludeArgs ==
  { [str |-> FALSE, v |-> <<>>], [str |-> FALSE, v |-> <<P_http>>], [str |-> TRUE, v |-> P_b] }
ExcludeArgs ==
  { [str |-> FALSE, v |-> <<>>], [str |-> TRUE, v |-> P_catchall],
    [str |-> FALSE, v |-> <<P_b>>], [str |-> FALSE, v |-> <<P_empty>>] }

NoInterceptor == "None"
Interceptors == {NoInterceptor, "callable"}

\* Values the caller assigns to driver.response_interceptor: callables of
\* one, two and three parameters, and None.
ResponseInterceptorArgs ==
  {NoInterceptor, "lambda res", "callable", "lambda req, res, extra"}

\* len(inspect.signature(interceptor).parameters)
parameters(interceptor) ==
  CASE interceptor = "lambda res" -> 1
    [] interceptor = "callable" -> 2
    [] OTHER -> 3

(***************************************************************************)
(* State.                                                                  *)
(***************************************************************************)
VARIABLES
  flow,                 \* the engine's flows: live request, live response, id
  log,                  \* per flow: what the hooks called (history)
  options,              \* MitmProxy.options
  include_urls,         \* MitmProxy._include_urls
  exclude_urls,         \* MitmProxy._exclude_urls
  request_interceptor,  \* MitmProxy.request_interceptor
  response_interceptor, \* MitmProxy.response_interceptor
  storage,              \* MitmProxy.storage
  master,               \* MitmProxy.master: the engine instance
  caller,               \* the caller's thread: where it is, what its last call raised
  calls                 \* operations the caller has performed

vars == <<flow, log, options, include_urls, exclude_urls,
          request_interceptor, response_interceptor, storage, master, caller, calls>>

NoRequest == [method |-> "", url |-> <<>>, headers |-> <<>>, raw_content |-> NoBody,
              stream |-> FALSE]

IdleFlow ==
  [pc |-> "idle",
   received |-> NoRequest,     \* the request as the engine received it
   request |-> NoRequest,      \* flow.request
   id |-> 0,                   \* flow.request.id; 0: the attribute is absent
   response |-> <<>>,          \* flow.response; <<>>: None
   certificate_list |-> <<>>,  \* flow.server_conn.certificate_list
   upgrade |-> FALSE,
   websocket |-> <<>>]         \* flow.websocket.messages

EmptyLog ==
  [save_request |-> <<>>,          \* arguments of storage.save_request
   save_response |-> <<>>,         \* arguments of storage.save_response
   save_ws_message |-> <<>>,       \* arguments of storage.save_ws_message
   save_har_entry |-> <<>>,        \* arguments of storage.save_har_entry
   request_interceptor |-> <<>>,   \* results of the request interceptor
   response_interceptor |-> <<>>,  \* results of the response interceptor
   mock |-> <<>>,                  \* mock responses the interceptor created
   upstream |-> 0,                 \* times the request went to the upstream server
   abandoned |-> FALSE]            \* in flight when update_server_mode began

\* The locals of wait_for_request: its arguments, time.time() - start in
\* sleep intervals, the number of store queries made so far, and how many
\* of them passed over a matching request that awaits its response.
NoWait == [pat |-> <<>>, timeout |-> 0, elapsed |-> 0, finds |-> 0, passed |-> 0]

\* The caller's thread between two calls: `op` is the server operation it
\* returned from, `arg` what it passed, `raised` the exception the call
\* raised, `address` the listen address update_server_mode saved, `events`
\* what shutdown did.
Returned(op, raised) ==
  [pc |-> "ready", op |-> op, arg |-> "", raised |-> raised, address |-> <<>>,
   events |-> <<>>, result |-> <<>>, wait |-> NoWait]

\* A setter that takes a lone string for the sequence of its parts, as
\* list("...") would.
url_list_setter_iterates(arg) ==
  IF arg.str THEN [i \in 1..Len(arg.v) |-> <<arg.v[i]>>] ELSE arg.v

\* MitmProxy.include_urls / exclude_urls setter
url_list_setter(arg) == IF arg.str THEN <<arg.v>> ELSE arg.v

\* MitmProxy._init_master: a fresh engine instance for the current options.
\* `phase` is where the instance is in its life ("created", "scheduled":
\* run() is submitted to the event loop, "running": the proxyserver add-on
\* reports is_running), `servers` the addresses its proxyserver listens on,
\* `old_servers` those that the instance it replaced still listens on.
_init_master(opts) ==
  [upstream |-> opts.upstream_proxy,
   listen_host |-> opts.host,
   listen_port |-> opts.port,
   phase |-> "created",
   servers |-> <<>>,
   old_servers |-> <<>>,
   should_exit |-> FALSE,
   bind_error |-> FALSE]

\* MitmProxy._get_storage_args
_get_storage_args(opts) ==
  [memory_only |-> opts.request_storage = "memory",
   maxsize |-> opts.request_storage_max_size]

\* storage.create(**storage_args): an empty store.
create(storage_args) ==
  [requests |-> <<>>, next_id |-> 1, cleaned |-> FALSE,
   memory_only |-> storage_args.memory_only, maxsize |-> storage_args.maxsize]

\* MitmProxy.__init__(options)
MitmProxy_init(opts) ==
  /\ flow = [f \in Flows |-> IdleFlow]
  /\ log = [f \in Flows |-> EmptyLog]
  /\ options = opts
  /\ include_urls = <<>>
  /\ exclude_urls = IF opts.disable_capture THEN <<P_catchall>> ELSE <<>>
  /\ request_interceptor = NoInterceptor
  /\ response_interceptor = NoInterceptor
  /\ storage = create(_get_storage_args(opts))
  /\ master = _init_master(opts)
  /\ caller = Returned("", "None")
  /\ calls = 0

Init == \E opts \in OptionChoices : MitmProxy_init(opts)

\* A proxy constructed with the in-memory store and a size bound.
InitStore == \E opts \in StoreOptionChoices : MitmProxy_init(opts)

(***************************************************************************)
(* The capture store (seleniumwire2.storage), as the pipeline uses it.     *)
(***************************************************************************)
\* The index of the record with this id in the store, or 0.
IndexOf(st, id) ==
  IF \E i \in 1..Len(st.requests) : st.requests[i].id = id
  THEN CHOOSE i \in 1..Len(st.requests) : st.requests[i].id = id
  ELSE 0

\* A store that never evicts.
evict_none(st, requests) == requests

\* The in-memory store with a size bound that is exceeded: the oldest
\* records go, each with its response, messages and HAR entry.
evict_oldest(st, requests) ==
  IF st.memory_only /\ st.maxsize # <<>> /\ Len(requests) > st.maxsize[1]
  THEN SubSeq(requests, Len(requests) - st.maxsize[1] + 1, Len(requests))
  ELSE requests

\* storage.save_request(request): stores the request under a fresh id and
\* sets request.id, here st.next_id.
save_request(st, request) ==
  [st EXCEPT
     !.requests = evict_oldest(st, Append(@, [id |-> st.next_id, request |-> request,
                                              response |-> <<>>, ws_messages |-> <<>>,
                                              har_entry |-> <<>>])),
     !.next_id = @ + 1]

\* storage.save_response(request_id, response): attaches the response to
\* the stored request, if that request is still stored.
save_response(st, id, response) ==
  IF IndexOf(st, id) = 0 THEN st
  ELSE [st EXCEPT !.requests[IndexOf(st, id)].response = <<response>>]

\* storage.save_ws_message(request_id, message)
save_ws_message(st, id, message) ==
  IF IndexOf(st, id) = 0 THEN st
  ELSE [st EXCEPT !.requests[IndexOf(st, id)].ws_messages = Append(@, message)]

\* storage.save_har_entry(request_id, entry)
save_har_entry(st, id, entry) ==
  IF IndexOf(st, id) = 0 THEN st
  ELSE [st EXCEPT !.requests[IndexOf(st, id)].har_entry = <<entry>>]

\* The first record of `requests`, in capture order, whose URL the pattern is
\* found in and, with check_response, that has its response attached; <<>>
\* stands for None.
RECURSIVE first_match(_, _, _)
first_match(requests, pat, check_response) ==
  IF requests = <<>> THEN <<>>
  ELSE IF /\ ReSearch(pat, Head(requests).request.url)
          /\ check_response => Head(requests).response # <<>>
       THEN <<Head(requests)>>
       ELSE first_match(Tail(requests), pat, check_response)

\* s in reverse order
RECURSIVE Reverse(_)
Reverse(s) == IF s = <<>> THEN <<>> ELSE Append(Reverse(Tail(s)), Head(s))

\* A find that scans from the latest captured request backwards.
find_latest(st, pat) == first_match(Reverse(st.requests), pat, TRUE)

\* A find that returns a request as soon as its URL matches.
find_unchecked(st, pat) == first_match(st.requests, pat, FALSE)

\* storage.find(pat), as wait_for_request uses it: only requests with
\* corresponding responses are considered.
find(st, pat) == first_match(st.requests, pat, TRUE)

\* storage.load_requests()
load_requests(st) == st.requests

\* storage.load_last_request(): the latest captured request, or None.
load_last_request(st) ==
  IF st.requests = <<>> THEN <<>> ELSE <<st.requests[Len(st.requests)]>>

\* storage.clear_requests()
clear_requests(st) == [st EXCEPT !.requests = <<>>]

\* storage.cleanup(): the store releases its resources.
cleanup(st) == [st EXCEPT !.requests = <<>>, !.cleaned = TRUE]

(***************************************************************************)
(* InterceptRequestHandler: the hooks.                                     *)
(***************************************************************************)
\* A hook that turns streaming off for every flow.
disable_stream_always(stream, capture) == FALSE

\* requestheaders / responseheaders: captured messages are not streamed.
disable_stream(stream, capture) == IF capture THEN FALSE ELSE stream

\* A scope decision that the exclude list cannot veto.
InScope_exclude_bypassed(request) ==
  _should_capture(request.method, request.url, options.ignore_http_methods,
                  include_urls, <<>>)

\* The scope decision for a request under the rules now in force.
InScope(request) ==
  _should_capture(request.method, request.url, options.ignore_http_methods,
                  include_urls, exclude_urls)

\* The hook of flow f is inside a call of the user's interceptor.
Running(f) == flow[f].pc \in {"request_interceptor", "response_interceptor"}

\* The hooks are plain functions that the engine calls on its one event
\* loop: a hook of flow f runs only while no hook of another flow is running.
LoopFree(f) == \A g \in Flows \ {f} : ~Running(g)

\* The engine has read the head of a new request: requestheaders(flow).
requestheaders(f) ==
  /\ flow[f].pc = "idle"
  /\ LoopFree(f)
  /\ master.servers # <<>>
  /\ IF f = 1 THEN TRUE ELSE flow[f - 1].pc # "idle"
  /\ \E in \in Inputs :
       LET live == [method |-> in.method, url |-> in.url, headers |-> in.headers,
                    raw_content |-> in.raw_content, stream |-> in.stream]
       IN  flow' = [flow EXCEPT ![f] =
                      [IdleFlow EXCEPT
                         !.pc = "requestheaders",
                         !.received = live,
                         !.request = [live EXCEPT !.stream = disable_stream(@, InScope(live))],
                         !.upgrade = in.upgrade]]
  /\ UNCHANGED <<log, options, include_urls, exclude_urls,
                 request_interceptor, response_interceptor, storage, master, caller, calls>>

\* A write-back that leaves the live URL as it was received.
request_write_back_keeps_url(live, request) ==
  [live EXCEPT !.method = request.method,
               !.headers = _to_headers_obj(request.headers),
               !.raw_content = request.body]

\* request(): lines 52-55, the snapshot written back into the live request.
request_write_back(live, request) ==
  [live EXCEPT !.method = request.method,
               !.url = replace_wss_once(request.url),
               !.headers = _to_headers_obj(request.headers),
               !.raw_content = request.body]

\* request(): lines 46-50, the mock written into the live response slot.
mock_to_live(mock) ==
  MitmResponse_make(mock.status_code, mock.body, mock.headers)

\* The attribute is set to the id after the one the store returned.
attach_id_next(old_id, request_id) == request_id + 1

\* The attribute is set to the id of the store's first record.
attach_id_first(old_id, request_id) == 1

\* request(): lines 61-62, the id attached to the live flow.
attach_id(old_id, request_id) == request_id

\* request(): the part after the scope check, for an interceptor outcome
\* that returned; `mock` is <<>> or <<the response it created>>.
request_capture(f, called, snapshot, request, mock) ==
  LET id == storage.next_id
      st1 == save_request(storage, request)
      st2 == IF mock # <<>> THEN save_response(st1, id, mock[1]) ELSE st1
  IN  /\ flow' = [flow EXCEPT
                    ![f].pc = "request",
                    ![f].request = IF called /\ mock = <<>>
                                   THEN request_write_back(@, request) ELSE @,
                    ![f].response = IF called /\ mock # <<>>
                                    THEN <<mock_to_live(mock[1])>> ELSE @,
                    ![f].id = attach_id(@, id)]
      /\ log' = [log EXCEPT
                   ![f].request_interceptor =
                      IF called
                      THEN Append(@, [arg |-> snapshot, result |-> request, raised |-> FALSE])
                      ELSE @,
                   ![f].mock = @ \o mock,
                   ![f].save_request = Append(@, [id |-> id, request |-> request]),
                   ![f].save_response =
                      IF mock # <<>> THEN Append(@, [id |-> id, response |-> mock[1]]) ELSE @]
      /\ storage' = st2

\* request(): lines 34-42 for an interceptor that takes its time: the hook
\* is in scope, has called the interceptor, and the interceptor is running.
request_interceptor_called(f) ==
  /\ flow[f].pc = "requestheaders"
  /\ LoopFree(f)
  /\ InScope(_create_request(flow[f].request))
  /\ request_interceptor # NoInterceptor
  /\ flow' = [flow EXCEPT ![f].pc = "request_interceptor"]
  /\ UNCHANGED <<log, options, include_urls, exclude_urls, request_interceptor,
                 response_interceptor, storage, master, caller, calls>>

\* The engine has read the whole request: request(flow); or the interceptor
\* that request(flow) called returns.
request(f) ==
  /\ flow[f].pc \in {"requestheaders", "request_interceptor"}
  /\ LoopFree(f)
  /\ LET request == _create_request(flow[f].request)
         running == flow[f].pc = "request_interceptor"
     IN  IF ~running /\ ~InScope(request)
         THEN /\ flow' = [flow EXCEPT ![f].pc = "request"]
              /\ UNCHANGED <<log, storage>>
         ELSE IF ~running /\ request_interceptor = NoInterceptor
         THEN request_capture(f, FALSE, request, request, <<>>)
         ELSE \E outcome \in RequestInterceptorOutcomes :
                IF outcome = "raise"
                THEN /\ flow' = [flow EXCEPT ![f].pc = "failed"]
                     /\ log' = [log EXCEPT ![f].request_interceptor =
                                  Append(@, [arg |-> request, result |-> request,
                                             raised |-> TRUE])]
                     /\ UNCHANGED storage
                ELSE request_capture(f, TRUE, request,
                                     RequestInterceptorResult(outcome, request),
                                     IF outcome = "mock" THEN <<MockResponse>> ELSE <<>>)
  /\ UNCHANGED <<options, include_urls, exclude_urls,
                 request_interceptor, response_interceptor, master, caller, calls>>

\* The engine has the head of the flow's response: responseheaders(flow).
\* A flow whose response slot the request hook filled is answered from that
\* slot, and the engine runs the responseheaders and response hooks on it as
\* on any other response; every other flow is forwarded to the upstream
\* server first.
responseheaders(f) ==
  /\ flow[f].pc = "request"
  /\ LoopFree(f)
  /\ \E up \in UpstreamResponses :
       LET forwarded == flow[f].response = <<>>
           live == IF forwarded
                   THEN [status_code |-> up.status_code, reason |-> up.reason,
                         headers |-> up.headers, raw_content |-> up.raw_content,
                         stream |-> up.stream]
                   ELSE flow[f].response[1]
       IN  /\ flow' = [flow EXCEPT
                         ![f].pc = "responseheaders",
                         ![f].certificate_list = IF forwarded THEN up.certificate_list ELSE @,
                         ![f].response =
                            <<[live EXCEPT !.stream = disable_stream(@, InScope(flow[f].request))]>>]
           /\ log' = [log EXCEPT ![f].upstream = IF forwarded THEN @ + 1 ELSE @]
  /\ UNCHANGED <<options, include_urls, exclude_urls,
                 request_interceptor, response_interceptor, storage, master, caller, calls>>

\* A write-back that leaves the live status line as the server sent it.
response_write_back_keeps_status(live, response) ==
  [live EXCEPT !.headers = _to_headers_obj(response.headers),
               !.raw_content = response.body]

\* response(): lines 118-121, the snapshot written back into the live response.
response_write_back(live, response) ==
  [live EXCEPT !.status_code = response.status_code,
               !.reason = response.reason,
               !.headers = _to_headers_obj(response.headers),
               !.raw_content = response.body]

\* har.create_har_entry(flow)
create_har_entry(fl) ==
  [method |-> fl.request.method, url |-> fl.request.url,
   status |-> fl.response[1].status_code]

\* A guard that lets every flow through.
has_id_always(fl) == TRUE

\* response(): the guard of lines 106-108.
has_id(fl) == fl.id # 0

\* A HAR switch that is always on.
enable_har_always(opts) == TRUE

\* response(): the test of line 127.
enable_har(opts) == opts.enable_har

\* response(): the part after the interceptor returned.
response_capture(f, called, snapshot, response) ==
  LET live == IF called THEN response_write_back(flow[f].response[1], response)
              ELSE flow[f].response[1]
      fl == [flow[f] EXCEPT !.pc = "response", !.response = <<live>>]
      st1 == save_response(storage, fl.id, response)
      st2 == IF enable_har(options)
             THEN save_har_entry(st1, fl.id, create_har_entry(fl)) ELSE st1
  IN  /\ flow' = [flow EXCEPT ![f] = fl]
      /\ log' = [log EXCEPT
                   ![f].response_interceptor =
                      IF called
                      THEN Append(@, [interceptor |-> response_interceptor,
                                      request |-> _create_request(flow[f].request),
                                      arg |-> snapshot, result |-> response,
                                      raised |-> FALSE])
                      ELSE @,
                   ![f].save_response = Append(@, [id |-> fl.id, response |-> response]),
                   ![f].save_har_entry =
                      IF enable_har(options)
                      THEN Append(@, [id |-> fl.id, entry |-> create_har_entry(fl)]) ELSE @]
      /\ storage' = st2

\* response(): lines 106-116 for an interceptor that takes its time: the
\* flow has an id, the hook has called the interceptor, and it is running.
response_interceptor_called(f) ==
  /\ flow[f].pc = "responseheaders"
  /\ LoopFree(f)
  /\ has_id(flow[f])
  /\ response_interceptor # NoInterceptor
  /\ flow' = [flow EXCEPT ![f].pc = "response_interceptor"]
  /\ UNCHANGED <<log, options, include_urls, exclude_urls, request_interceptor,
                 response_interceptor, storage, master, caller, calls>>

\* The engine has the whole response: response(flow); or the interceptor
\* that response(flow) called returns.
response(f) ==
  /\ flow[f].pc \in {"responseheaders", "response_interceptor"}
  /\ LoopFree(f)
  /\ IF flow[f].pc = "responseheaders" /\ ~has_id(flow[f])
     THEN /\ flow' = [flow EXCEPT ![f].pc = "response"]
          /\ UNCHANGED <<log, storage>>
     ELSE LET snapshot == _create_response(flow[f].response[1], flow[f].certificate_list)
          IN  IF flow[f].pc = "responseheaders" /\ response_interceptor = NoInterceptor
              THEN response_capture(f, FALSE, snapshot, snapshot)
              ELSE \E outcome \in ResponseInterceptorOutcomes :
                     IF outcome = "raise"
                     THEN /\ flow' = [flow EXCEPT ![f].pc = "failed"]
                          /\ log' = [log EXCEPT ![f].response_interceptor =
                                       Append(@, [interceptor |-> response_interceptor,
                                                  request |-> _create_request(flow[f].request),
                                                  arg |-> snapshot, result |-> snapshot,
                                                  raised |-> TRUE])]
                          /\ UNCHANGED storage
                     ELSE response_capture(f, TRUE, snapshot,
                                           ResponseInterceptorResult(outcome, snapshot))
  /\ UNCHANGED <<options, include_urls, exclude_urls,
                 request_interceptor, response_interceptor, master, caller, calls>>

\* WebSocketMessage(from_client, content, date=datetime.fromtimestamp(timestamp))
WebSocketMessage(message) ==
  [from_client |-> message.from_client, content |-> message.content,
   date |-> <<"date", message.timestamp>>]

\* websocket_message(): lines 160-167, every message of the flow is saved.
RECURSIVE save_ws_messages(_, _, _)
save_ws_messages(st, id, messages) ==
  IF messages = <<>> THEN st
  ELSE save_ws_messages(save_ws_message(st, id, WebSocketMessage(Head(messages))),
                        id, Tail(messages))

\* The k-th message the engine observes on a stream: the client speaks first.
EngineMessage(k) == [from_client |-> k = 1, content |-> "text", timestamp |-> k]

\* The engine has observed one more message on an upgraded flow and calls
\* websocket_message(flow).
websocket_message(f) ==
  /\ flow[f].pc = "response"
  /\ LoopFree(f)
  /\ flow[f].upgrade
  /\ Len(flow[f].websocket) < MaxWsMessages
  /\ \E message \in {EngineMessage(Len(flow[f].websocket) + 1)} :
       LET messages == Append(flow[f].websocket, message)
       IN  /\ flow' = [flow EXCEPT ![f].websocket = messages]
           /\ IF has_id(flow[f])
              THEN /\ storage' = save_ws_messages(storage, flow[f].id, messages)
                   /\ log' = [log EXCEPT ![f].save_ws_message =
                                @ \o [i \in 1..Len(messages) |-> WebSocketMessage(messages[i])]]
              ELSE UNCHANGED <<log, storage>>
  /\ UNCHANGED <<options, include_urls, exclude_urls,
                 request_interceptor, response_interceptor, master, caller, calls>>

(***************************************************************************)
(* The caller's side: MitmProxy attributes and the store.  The caller's    *)
(* thread runs between any two hook calls.  `limited` bounds the number of *)
(* operations the caller performs in one behaviour.                        *)
(***************************************************************************)
Called(limited) ==
  /\ caller.pc = "ready"
  /\ IF limited THEN calls < MaxCalls /\ calls' = calls + 1 ELSE UNCHANGED calls

\* proxy.include_urls = arg
set_include_urls(limited) ==
  /\ Called(limited)
  /\ \E arg \in IncludeArgs : include_urls' = url_list_setter(arg)
  /\ caller' = Returned("", "None")
  /\ UNCHANGED <<flow, log, options, exclude_urls,
                 request_interceptor, response_interceptor, storage, master>>

\* proxy.exclude_urls = arg
set_exclude_urls(limited) ==
  /\ Called(limited)
  /\ \E arg \in ExcludeArgs : exclude_urls' = url_list_setter(arg)
  /\ caller' = Returned("", "None")
  /\ UNCHANGED <<flow, log, options, include_urls,
                 request_interceptor, response_interceptor, storage, master>>

\* del driver.include_urls
del_include_urls(limited) ==
  /\ Called(limited)
  /\ include_urls' = url_list_setter([str |-> FALSE, v |-> <<>>])
  /\ caller' = Returned("del include_urls", "None")
  /\ UNCHANGED <<flow, log, options, exclude_urls,
                 request_interceptor, response_interceptor, storage, master>>

\* del driver.exclude_urls
del_exclude_urls(limited) ==
  /\ Called(limited)
  /\ exclude_urls' = url_list_setter([str |-> FALSE, v |-> <<>>])
  /\ caller' = Returned("del exclude_urls", "None")
  /\ UNCHANGED <<flow, log, options, include_urls,
                 request_interceptor, response_interceptor, storage, master>>

\* driver.request_interceptor = interceptor
set_request_interceptor(limited) ==
  /\ Called(limited)
  /\ \E i \in Interceptors : request_interceptor' = i
  /\ caller' = Returned("", "None")
  /\ UNCHANGED <<flow, log, options, include_urls, exclude_urls,
                 response_interceptor, storage, master>>

\* A setter that installs whatever it is given.
response_interceptor_setter_unchecked(old, interceptor) ==
  [installed |-> interceptor, raised |-> "None"]

\* InspectRequestsMixin.response_interceptor setter: the interceptor in
\* effect after the assignment, and what the assignment raised.
\* inspect.signature(None) raises TypeError.
response_interceptor_setter(old, interceptor) ==
  IF interceptor = NoInterceptor
  THEN [installed |-> old, raised |-> "TypeError"]
  ELSE IF parameters(interceptor) # 2
  THEN [installed |-> old, raised |-> "RuntimeError"]
  ELSE [installed |-> interceptor, raised |-> "None"]

\* driver.response_interceptor = interceptor
set_response_interceptor(limited) ==
  /\ Called(limited)
  /\ \E i \in ResponseInterceptorArgs :
       LET r == response_interceptor_setter(response_interceptor, i)
       IN  /\ response_interceptor' = r.installed
           /\ caller' = [Returned("response_interceptor", r.raised) EXCEPT !.arg = i]
  /\ UNCHANGED <<flow, log, options, include_urls, exclude_urls,
                 request_interceptor, storage, master>>

\* del driver.response_interceptor
del_response_interceptor(limited) ==
  /\ Called(limited)
  /\ response_interceptor' = NoInterceptor
  /\ caller' = Returned("", "None")
  /\ UNCHANGED <<flow, log, options, include_urls, exclude_urls,
                 request_interceptor, storage, master>>

\* A `del driver.requests` that leaves the store as it is.
del_requests_noop(limited) ==
  /\ Called(limited)
  /\ caller' = Returned("del requests", "None")
  /\ UNCHANGED <<flow, log, options, include_urls, exclude_urls,
                 request_interceptor, response_interceptor, master, storage>>

\* del driver.requests
del_requests(limited) ==
  /\ Called(limited)
  /\ storage' = clear_requests(storage)
  /\ caller' = Returned("del requests", "None")
  /\ UNCHANGED <<flow, log, options, include_urls, exclude_urls,
                 request_interceptor, response_interceptor, master>>

\* driver.requests
get_requests(limited) ==
  /\ Called(limited)
  /\ caller' = [Returned("requests", "None") EXCEPT !.result = load_requests(storage)]
  /\ UNCHANGED <<flow, log, options, include_urls, exclude_urls,
                 request_interceptor, response_interceptor, storage, master>>

\* driver.last_request
get_last_request(limited) ==
  /\ Called(limited)
  /\ caller' = [Returned("last_request", "None")
                  EXCEPT !.result = load_last_request(storage)]
  /\ UNCHANGED <<flow, log, options, include_urls, exclude_urls,
                 request_interceptor, response_interceptor, storage, master>>

\* Patterns and timeouts (in sleep intervals of 1/5 s) that the caller
\* passes to wait_for_request.
WaitPatterns == {P_catchall, <<"a">>, <<"b">>, <<"hello">>}
Timeouts == 0..MaxTimeout

TimeoutException == "TimeoutException"

\* driver.wait_for_request(pat, timeout), line 76: start = time.time()
wait_for_request(limited) ==
  /\ Called(limited)
  /\ \E pat \in WaitPatterns, timeout \in Timeouts :
       caller' = [Returned("wait_for_request", "None")
                    EXCEPT !.pc = "wait_for_request",
                           !.wait = [pat |-> pat, timeout |-> timeout,
                                     elapsed |-> 0, finds |-> 0, passed |-> 0]]
  /\ UNCHANGED <<flow, log, options, include_urls, exclude_urls,
                 request_interceptor, response_interceptor, storage, master>>

\* wait_for_request, line 78: the loop condition.
wait_for_request_in_time(w) == w.elapsed < w.timeout

\* wait_for_request, lines 78-84: one round of the loop.  The store is
\* queried; a request is returned at once, None is followed by a sleep of
\* one interval.
wait_for_request_find ==
  /\ caller.pc = "wait_for_request"
  /\ wait_for_request_in_time(caller.wait)
  /\ LET found == find(storage, caller.wait.pat)
     IN  IF found = <<>>
         THEN caller' = [caller EXCEPT
                           !.wait.finds = @ + 1,
                           !.wait.elapsed = @ + 1,
                           !.wait.passed =
                              IF first_match(storage.requests, caller.wait.pat, FALSE) # <<>>
                              THEN @ + 1 ELSE @]
         ELSE caller' = [caller EXCEPT !.pc = "ready",
                                       !.wait.finds = @ + 1,
                                       !.result = found]
  /\ UNCHANGED <<flow, log, options, include_urls, exclude_urls,
                 request_interceptor, response_interceptor, storage, master, calls>>

\* wait_for_request, line 86: the loop is left and TimeoutException raised.
wait_for_request_timeout ==
  /\ caller.pc = "wait_for_request"
  /\ ~wait_for_request_in_time(caller.wait)
  /\ caller' = [caller EXCEPT !.pc = "ready", !.raised = TimeoutException]
  /\ UNCHANGED <<flow, log, options, include_urls, exclude_urls,
                 request_interceptor, response_interceptor, storage, master, calls>>

\* A flow whose exchange is not over: between its first and its last hook,
\* or upgraded to a WebSocket stream.
InFlight(fl) ==
  \/ fl.pc \in {"requestheaders", "request_interceptor", "request",
                "responseheaders", "response_interceptor"}
  \/ fl.pc = "response" /\ fl.upgrade

\* An address property that answers with the configured address.
address_configured(m) == <<m.listen_host, m.listen_port>>

\* MitmProxy.address: listen_addrs()[0]; <<>> stands for the IndexError that
\* is raised as SeleniumWireException("Proxy is not running").
address(m) == IF m.servers = <<>> THEN <<>> ELSE m.servers[1]

NotRunning == "SeleniumWireException: Proxy is not running"

\* proxy.address
get_address(limited) ==
  /\ Called(limited)
  /\ caller' = [Returned("address", IF address(master) = <<>> THEN NotRunning ELSE "None")
                  EXCEPT !.address = address(master)]
  /\ UNCHANGED <<flow, log, options, include_urls, exclude_urls,
                 request_interceptor, response_interceptor, storage, master>>

\* A shutdown that stops the engine and leaves its listening sockets open.
_shutdown_mitmproxy_keeps_servers(m) == [m EXCEPT !.should_exit = TRUE]

\* A shutdown that closes the listening sockets and lets the engine run on.
_shutdown_mitmproxy_servers_only(m) == [m EXCEPT !.servers = <<>>]

\* MitmProxy._shutdown_mitmproxy: master.shutdown(), then the proxyserver's
\* servers are updated to none, which closes the listening sockets.
_shutdown_mitmproxy(m) == [m EXCEPT !.should_exit = TRUE, !.servers = <<>>]

\* MitmProxy.start, line 122: master.run() is submitted to the event loop.
start_run(m) == [m EXCEPT !.phase = "scheduled"]

\* proxy.start(): the call; the caller then polls _wait_for_proxyserver.
start(limited) ==
  /\ caller.pc = "ready"
  /\ master.phase = "created"
  /\ ~master.should_exit
  /\ master' = start_run(master)
  /\ caller' = [Returned("start", "None") EXCEPT !.pc = "start"]
  /\ UNCHANGED <<flow, log, options, include_urls, exclude_urls,
                 request_interceptor, response_interceptor, storage, calls>>

\* The sockets a new engine instance binds: port 0 gets a port of the
\* operating system's choice, a port that another process holds gets none.
bind(host, port, in_use) ==
  IF port = DefaultPort THEN {<< <<host, p>> >> : p \in EphemeralPorts}
  ELSE IF in_use THEN {<<>>}
  ELSE {<< <<host, port>> >>}

\* The engine's run(): the proxyserver sets up its servers.  A bind error is
\* logged and run() goes on.  The port that update_server_mode has just
\* released is free, one that the replaced instance still listens on is
\* not; the port of the first start may be held by another process.
master_run_setup_servers ==
  /\ master.phase = "scheduled"
  /\ \A f \in Flows : ~Running(f)
  /\ \E in_use \in (IF caller.op = "update_server_mode"
                     THEN {master.old_servers # <<>>} ELSE BOOLEAN) :
       \E servers \in bind(master.listen_host, master.listen_port, in_use) :
         master' = [master EXCEPT !.phase = "setup",
                                  !.servers = servers,
                                  !.bind_error = servers = <<>>]
  /\ UNCHANGED <<flow, log, options, include_urls, exclude_urls,
                 request_interceptor, response_interceptor, storage, caller, calls>>

\* The engine's run(): the running hook; the proxyserver reports is_running.
master_run_running ==
  /\ master.phase = "setup"
  /\ \A f \in Flows : ~Running(f)
  /\ master' = [master EXCEPT !.phase = "running"]
  /\ UNCHANGED <<flow, log, options, include_urls, exclude_urls,
                 request_interceptor, response_interceptor, storage, caller, calls>>

\* A wait that gives up on an engine that is not running yet.
_wait_for_proxyserver_gives_up(m) == TRUE

\* MitmProxy._wait_for_proxyserver: the loop ends when is_running holds.
_wait_for_proxyserver(m) == m.phase = "running"

\* proxy.start() and update_server_mode line 118: the poll sees the engine
\* running and the call returns.
start_return ==
  /\ caller.pc = "start"
  /\ _wait_for_proxyserver(master)
  /\ caller' = [caller EXCEPT !.pc = "ready"]
  /\ UNCHANGED <<flow, log, options, include_urls, exclude_urls,
                 request_interceptor, response_interceptor, storage, master, calls>>

\* update_server_mode lines 113-115 with the port left as configured.
update_options_keeps_port(opts, proxy_conf, addr) ==
  [opts EXCEPT !.upstream_proxy = proxy_conf, !.host = addr[1]]

\* update_server_mode lines 113-115 with the upstream target left as it was.
update_options_keeps_upstream(opts, proxy_conf, addr) ==
  [opts EXCEPT !.host = addr[1], !.port = addr[2]]

\* update_server_mode lines 113-115: the options of the new instance.
update_options(opts, proxy_conf, addr) ==
  [opts EXCEPT !.upstream_proxy = proxy_conf, !.host = addr[1], !.port = addr[2]]

\* update_server_mode lines 117-118 up to the poll of start(): a new
\* instance for the options replaces the one that was shut down, whose
\* object is dropped with whatever it still listens on, and its run() is
\* submitted to the event loop.
restart_master(old, opts) ==
  [start_run(_init_master(opts)) EXCEPT !.old_servers = old.servers]

\* proxy.update_server_mode(proxy_conf), lines 109-118 up to the poll of
\* start(): the address is read (and raises when there is none), the engine
\* is shut down, a new instance is built on the saved address and submitted
\* to the event loop.  The flows of the old instance stay where they are.
update_server_mode(limited) ==
  /\ Called(limited)
  /\ \E proxy_conf \in ProxyConfigs :
       LET addr == address(master)
       IN  IF addr = <<>>
           THEN /\ caller' = [Returned("update_server_mode", NotRunning)
                                EXCEPT !.arg = proxy_conf]
                /\ UNCHANGED <<options, master, log>>
           ELSE /\ options' = update_options(options, proxy_conf, addr)
                /\ master' = restart_master(_shutdown_mitmproxy(master), options')
                /\ caller' = [Returned("update_server_mode", "None")
                                EXCEPT !.pc = "start", !.arg = proxy_conf,
                                       !.address = addr]
                /\ log' = [f \in Flows |->
                             [log[f] EXCEPT !.abandoned = @ \/ InFlight(flow[f])]]
  /\ UNCHANGED <<flow, include_urls, exclude_urls,
                 request_interceptor, response_interceptor, storage>>

\* update_server_mode, lines 109-111, as a step of its own: the address is
\* read (and raises when there is none) and the engine is shut down.
update_server_mode_shutdown(limited) ==
  /\ Called(limited)
  /\ \E proxy_conf \in ProxyConfigs :
       LET addr == address(master)
       IN  IF addr = <<>>
           THEN /\ caller' = [Returned("update_server_mode", NotRunning)
                                EXCEPT !.arg = proxy_conf]
                /\ UNCHANGED <<master, log>>
           ELSE /\ master' = _shutdown_mitmproxy(master)
                /\ caller' = [Returned("update_server_mode", "None")
                                EXCEPT !.pc = "update_server_mode", !.arg = proxy_conf,
                                       !.address = addr]
                /\ log' = [f \in Flows |->
                             [log[f] EXCEPT !.abandoned = @ \/ InFlight(flow[f])]]
  /\ UNCHANGED <<flow, options, include_urls, exclude_urls,
                 request_interceptor, response_interceptor, storage>>

\* update_server_mode, lines 113-118 up to the poll of start(): the options
\* are updated, a new instance is built on the saved address and submitted
\* to the event loop.
update_server_mode_restart ==
  /\ caller.pc = "update_server_mode"
  /\ options' = update_options(options, caller.arg, caller.address)
  /\ master' = restart_master(master, options')
  /\ caller' = [caller EXCEPT !.pc = "start"]
  /\ UNCHANGED <<flow, log, include_urls, exclude_urls,
                 request_interceptor, response_interceptor, storage, calls>>

\* proxy.shutdown(), line 144: the engine is stopped.
shutdown(limited) ==
  /\ Called(limited)
  /\ master' = _shutdown_mitmproxy(master)
  /\ caller' = [Returned("shutdown", "None")
                  EXCEPT !.pc = "shutdown",
                         !.events = <<"master.shutdown", "servers.update">>]
  /\ UNCHANGED <<flow, log, options, include_urls, exclude_urls,
                 request_interceptor, response_interceptor, storage>>

\* proxy.shutdown(), line 145: the store is told to clean up; the call returns.
shutdown_cleanup ==
  /\ caller.pc = "shutdown"
  /\ storage' = cleanup(storage)
  /\ caller' = [caller EXCEPT !.pc = "ready", !.events = Append(@, "storage.cleanup")]
  /\ UNCHANGED <<flow, log, options, include_urls, exclude_urls,
                 request_interceptor, response_interceptor, master, calls>>

(***************************************************************************)
(* Upstream derivation: get_mitm_upstream_proxy_args.  A proxy URL is the  *)
(* sequence of its parts, <<scheme, "://", user, ":", password, "@",       *)
(* host:port>>, an empty user or password being no part at all.            *)
(***************************************************************************)
\* Python's None among strings.
Absent == "<None>"

\* The targets a proxy URL can name: with and without credentials, with an
\* empty password, with no password, with an empty user name.
UpstreamTargets ==
  { [scheme |-> sc, username |-> cr[1], password |-> cr[2], hostport |-> hp] :
      sc \in {"http", "https"},
      cr \in { <<Absent, Absent>>, <<"user", "pass">>, <<"user", "">>,
               <<"user", Absent>>, <<"", "pass">> },
      hp \in {"proxyserver:8080", "proxyserver2:8080"} }

\* The URL that names a target.
UpstreamUrl(t) ==
  <<t.scheme, "://">>
    \o (IF t.username = Absent THEN <<>>
        ELSE (IF t.username = "" THEN <<>> ELSE <<t.username>>)
               \o (IF t.password = Absent THEN <<>>
                   ELSE <<":">> \o (IF t.password = "" THEN <<>> ELSE <<t.password>>))
               \o <<"@">>)
    \o <<t.hostport>>

\* ProxyConfig(http, https) values as <<config>>, and <<>> for None; a
\* field is a URL, or <<>> for None.
UpstreamProxyArgs ==
  {<<>>} \cup
  { <<[http |-> h, https |-> hs]>> :
      h \in {<<>>} \cup {UpstreamUrl(t) : t \in UpstreamTargets},
      hs \in {<<>>} \cup {UpstreamUrl(t) : t \in UpstreamTargets} }

\* The position of the first x in s; 0 when there is none.
Find(s, x) ==
  IF \E i \in 1..Len(s) : s[i] = x
  THEN CHOOSE i \in 1..Len(s) : s[i] = x /\ \A j \in 1..(i - 1) : s[j] # x
  ELSE 0

\* The string that a sequence of at most one part stands for.
Text(parts) == IF parts = <<>> THEN "" ELSE parts[1]

\* _parse_proxy(url): <<>> (None) for None, else <<conf>> with urllib's
\* (scheme, username, password, hostport); user and password are None
\* without userinfo, the password is None without a colon in it.
_parse_proxy(url) ==
  IF url = <<>> THEN <<>>
  ELSE LET authority == Drop(url, 2)
           at == Find(authority, "@")
           userinfo == SubSeq(authority, 1, at - 1)
           colon == Find(userinfo, ":")
       IN  <<[scheme |-> url[1],
              username |-> IF at = 0 THEN Absent
                           ELSE IF colon = 0 THEN Text(userinfo)
                           ELSE Text(SubSeq(userinfo, 1, colon - 1)),
              password |-> IF at = 0 \/ colon = 0 THEN Absent
                           ELSE Text(Drop(userinfo, colon)),
              hostport |-> authority[Len(authority)]]>>

\* The arguments for the engine: <<>> stands for a key that is not set.
NoArgs == [mode |-> <<>>, upstream_auth |-> <<>>]

\* str(x) inside an f-string.
format(x) == IF x = Absent THEN "None" ELSE x

\* get_mitm_upstream_proxy_args, lines 44-53, when the two targets do not
\* conflict: conf.
choose_conf(http_proxy, https_proxy) ==
  IF http_proxy # <<>> /\ https_proxy # <<>> THEN https_proxy
  ELSE IF http_proxy # <<>> THEN http_proxy
  ELSE https_proxy

\* get_mitm_upstream_proxy_args(upstream_proxy): the arguments and the
\* exception raised.
get_mitm_upstream_proxy_args(upstream_proxy) ==
  IF upstream_proxy = <<>> THEN [raised |-> "None", args |-> NoArgs]
  ELSE LET http_proxy == _parse_proxy(upstream_proxy[1].http)
           https_proxy == _parse_proxy(upstream_proxy[1].https)
           conf == choose_conf(http_proxy, https_proxy)
       IN  IF http_proxy # <<>> /\ https_proxy # <<>>
              /\ http_proxy[1].hostport # https_proxy[1].hostport
           THEN [raised |-> "ValueError", args |-> NoArgs]
           ELSE IF conf = <<>> THEN [raised |-> "None", args |-> NoArgs]
           ELSE [raised |-> "None",
                 args |-> [mode |-> <<"upstream:", conf[1].scheme, "://",
                                      conf[1].hostport>>,
                           upstream_auth |->
                             IF conf[1].username \notin {Absent, ""}
                             THEN <<conf[1].username, ":", format(conf[1].password)>>
                             ELSE <<>>]]

\* What os.environ holds in HTTPS_PROXY: nothing (<<>>), or a proxy URL.
Environments ==
  {<<>>, UpstreamUrl([scheme |-> "http", username |-> Absent, password |-> Absent,
                      hostport |-> "envproxy:3128"])}

\* _init_master, line 66: the upstream arguments are derived from the
\* options when an engine instance is built, in a process whose environment
\* is `environ`.
derive_upstream ==
  /\ caller.pc = "ready"
  /\ \E upstream_proxy \in UpstreamProxyArgs, environ \in Environments :
       LET r == get_mitm_upstream_proxy_args(upstream_proxy)
       IN  caller' = [Returned("get_mitm_upstream_proxy_args", r.raised)
                        EXCEPT !.arg = [upstream_proxy |-> upstream_proxy,
                                        environ |-> environ],
                               !.result = r.args]
  /\ UNCHANGED <<flow, log, options, include_urls, exclude_urls,
                 request_interceptor, response_interceptor, storage, master, calls>>

SpecUpstream == Init /\ [][derive_upstream]_vars

(***************************************************************************)
(* update_server_mode with a configuration that the upstream derivation    *)
(* rejects.                                                                *)
(***************************************************************************)
\* A ProxyConfig whose http and https targets differ in host:port.
ConflictingUpstream == "http://proxyserver:8080 https://proxyserver2:8080"
RejectedProxyConfigs == {ConflictingUpstream}

\* The ProxyConfig object that a configuration of the model stands for.
ProxyConfig(proxy_conf) ==
  CASE proxy_conf = NoUpstream -> <<>>
    [] proxy_conf = ConflictingUpstream ->
         <<[http |-> <<"http", "://", "proxyserver:8080">>,
            https |-> <<"https", "://", "proxyserver2:8080">>]>>
    [] OTHER -> <<[http |-> <<"http", "://", "upstream:8080">>, https |-> <<>>]>>

\* The listen port of an engine instance whose options were never updated.
MitmDefaultPort == 8080

\* _init_master, lines 51-56, when line 66 raises: self.master is the new
\* instance with the engine's default options; update() has not run.
_init_master_unconfigured(opts) ==
  [_init_master(opts) EXCEPT !.upstream = NoUpstream,
                             !.listen_host = "",
                             !.listen_port = MitmDefaultPort]

\* proxy.update_server_mode(proxy_conf) for a configuration that
\* get_mitm_upstream_proxy_args rejects: lines 109-117.  The address is
\* read (and raises when there is none), the engine is shut down, the
\* options are updated, and _init_master replaces self.master (line 53)
\* before the derivation raises inside it (line 66); start() is not reached.
update_server_mode_rejected(limited) ==
  /\ Called(limited)
  /\ \E proxy_conf \in RejectedProxyConfigs :
       LET addr == address(master)
           raised == get_mitm_upstream_proxy_args(ProxyConfig(proxy_conf)).raised
       IN  /\ raised # "None"
           /\ IF addr = <<>>
              THEN /\ caller' = [Returned("update_server_mode", NotRunning)
                                   EXCEPT !.arg = proxy_conf]
                   /\ UNCHANGED <<options, master, log>>
              ELSE /\ options' = update_options(options, proxy_conf, addr)
                   /\ master' = [_init_master_unconfigured(options')
                                   EXCEPT !.old_servers = _shutdown_mitmproxy(master).servers]
                   /\ caller' = [Returned("update_server_mode", raised)
                                   EXCEPT !.arg = proxy_conf, !.address = addr]
                   /\ log' = [f \in Flows |->
                                [log[f] EXCEPT !.abandoned = @ \/ InFlight(flow[f])]]
  /\ UNCHANGED <<flow, include_urls, exclude_urls,
                 request_interceptor, response_interceptor, storage>>

(***************************************************************************)
(* Spec: MaxFlows concurrent flows, at most MaxCalls caller operations.    *)
(***************************************************************************)
Next ==
  \/ \E f \in Flows : requestheaders(f)
  \/ \E f \in Flows : request(f)
  \/ \E f \in Flows : responseheaders(f)
  \/ \E f \in Flows : response(f)
  \/ \E f \in Flows : websocket_message(f)
  \/ set_include_urls(TRUE)
  \/ set_exclude_urls(TRUE)
  \/ set_request_interceptor(TRUE)
  \/ set_response_interceptor(TRUE)
  \/ del_response_interceptor(TRUE)
  \/ del_requests(TRUE)
  \/ start(TRUE)
  \/ master_run_setup_servers
  \/ master_run_running
  \/ start_return
  \/ get_address(TRUE)
  \/ update_server_mode(TRUE)
  \/ shutdown(TRUE)
  \/ shutdown_cleanup

Spec == Init /\ [][Next]_vars

(***************************************************************************)
(* SpecOneFlow: one flow, any number of caller operations.                 *)
(***************************************************************************)
NextOneFlow ==
  \/ requestheaders(1)
  \/ request(1)
  \/ responseheaders(1)
  \/ response(1)
  \/ websocket_message(1)
  \/ set_include_urls(FALSE)
  \/ set_exclude_urls(FALSE)
  \/ set_request_interceptor(FALSE)
  \/ set_response_interceptor(FALSE)
  \/ del_response_interceptor(FALSE)
  \/ del_requests(FALSE)
  \/ start(FALSE)
  \/ master_run_setup_servers
  \/ master_run_running
  \/ start_return
  \/ get_address(FALSE)
  \/ update_server_mode(FALSE)
  \/ shutdown(FALSE)
  \/ shutdown_cleanup

SpecOneFlow == Init /\ [][NextOneFlow]_vars

(***************************************************************************)
(* SpecSlow: as Spec, with interceptors that take time: a hook that calls  *)
(* one is two steps, the call and the return.                              *)
(***************************************************************************)
NextSlow ==
  \/ \E f \in Flows : requestheaders(f)
  \/ \E f \in Flows : request_interceptor_called(f)
  \/ \E f \in Flows : request(f)
  \/ \E f \in Flows : responseheaders(f)
  \/ \E f \in Flows : response_interceptor_called(f)
  \/ \E f \in Flows : response(f)
  \/ \E f \in Flows : websocket_message(f)
  \/ set_request_interceptor(TRUE)
  \/ set_response_interceptor(TRUE)
  \/ start(TRUE)
  \/ master_run_setup_servers
  \/ master_run_running
  \/ start_return

SpecSlow == Init /\ [][NextSlow]_vars

(***************************************************************************)
(* SpecServer: the life of the proxy server alone, no flows; the caller's  *)
(* thread keeps polling while it is inside start().                        *)
(***************************************************************************)
NextServer ==
  \/ start(FALSE)
  \/ master_run_setup_servers
  \/ master_run_running
  \/ start_return
  \/ get_address(FALSE)
  \/ update_server_mode(FALSE)
  \/ shutdown(FALSE)
  \/ shutdown_cleanup

SpecServer == Init /\ [][NextServer]_vars /\ WF_vars(start_return)

(***************************************************************************)
(* SpecInspect: two flows without interceptors, and a caller that inspects *)
(* the captured requests while they arrive.                                *)
(***************************************************************************)
NextInspect ==
  \/ \E f \in Flows : requestheaders(f)
  \/ \E f \in Flows : request(f)
  \/ \E f \in Flows : responseheaders(f)
  \/ \E f \in Flows : response(f)
  \/ start(FALSE)
  \/ master_run_setup_servers
  \/ master_run_running
  \/ start_return
  \/ del_requests(FALSE)
  \/ get_requests(FALSE)
  \/ get_last_request(FALSE)
  \/ wait_for_request(FALSE)
  \/ wait_for_request_find
  \/ wait_for_request_timeout

SpecInspect ==
  /\ Init
  /\ [][NextInspect]_vars
  /\ WF_vars(wait_for_request_find)
  /\ WF_vars(wait_for_request_timeout)

(***************************************************************************)
(* SpecScope: two flows without interceptors, and a caller that assigns    *)
(* and deletes the scope rules while they arrive.                          *)
(***************************************************************************)
NextScope ==
  \/ \E f \in Flows : requestheaders(f)
  \/ \E f \in Flows : request(f)
  \/ \E f \in Flows : responseheaders(f)
  \/ \E f \in Flows : response(f)
  \/ start(FALSE)
  \/ master_run_setup_servers
  \/ master_run_running
  \/ start_return
  \/ set_include_urls(FALSE)
  \/ set_exclude_urls(FALSE)
  \/ del_include_urls(FALSE)
  \/ del_exclude_urls(FALSE)

SpecScope == Init /\ [][NextScope]_vars

(***************************************************************************)
(* SpecSwap: the life of the proxy server with update_server_mode in two   *)
(* steps, the engine's event loop running between them.                    *)
(***************************************************************************)
NextSwap ==
  \/ start(FALSE)
  \/ master_run_setup_servers
  \/ master_run_running
  \/ start_return
  \/ get_address(FALSE)
  \/ update_server_mode_shutdown(FALSE)
  \/ update_server_mode_restart
  \/ shutdown(FALSE)
  \/ shutdown_cleanup

SpecSwap == Init /\ [][NextSwap]_vars

(***************************************************************************)
(* SpecReject: the life of the proxy server with hot swaps to accepted and *)
(* to rejected upstream configurations.                                    *)
(***************************************************************************)
NextReject ==
  \/ start(FALSE)
  \/ master_run_setup_servers
  \/ master_run_running
  \/ start_return
  \/ get_address(FALSE)
  \/ update_server_mode(FALSE)
  \/ update_server_mode_rejected(FALSE)
  \/ shutdown(FALSE)
  \/ shutdown_cleanup

SpecReject == Init /\ [][NextReject]_vars

(***************************************************************************)
(* SpecStore: the in-memory store with a size bound.  The engine makes a   *)
(* new flow object for every request, so a flow whose exchange is over     *)
(* gives way to the next one, up to MaxCaptures captured requests.         *)
(***************************************************************************)
\* The exchange of flow f is over: the engine lets go of the flow object,
\* and the next request it reads is a new flow.
new_flow(f) ==
  /\ flow[f].pc \in {"response", "failed"}
  /\ storage.next_id <= MaxCaptures
  /\ flow' = [flow EXCEPT ![f] = IdleFlow]
  /\ log' = [log EXCEPT ![f] = EmptyLog]
  /\ UNCHANGED <<options, include_urls, exclude_urls, request_interceptor,
                 response_interceptor, storage, master, caller, calls>>

NextStore ==
  \/ \E f \in Flows : requestheaders(f)
  \/ \E f \in Flows : request(f)
  \/ \E f \in Flows : responseheaders(f)
  \/ \E f \in Flows : response(f)
  \/ \E f \in Flows : websocket_message(f)
  \/ \E f \in Flows : new_flow(f)
  \/ start(FALSE)
  \/ master_run_setup_servers
  \/ master_run_running
  \/ start_return
  \/ get_requests(FALSE)

SpecStore == InitStore /\ [][NextStore]_vars

(***************************************************************************)
(* SpecFilter: the scope filter alone, called with every method, URL and   *)
(* rule set of the model.                                                  *)
(***************************************************************************)
Methods == {"GET", "POST", "OPTIONS"}
IgnoreSets == {{}, {"OPTIONS"}, {"OPTIONS", "POST"}}
Patterns == {P_http, P_b, P_catchall, P_empty}

\* The lists of at most MaxRules patterns.
RuleLists == UNION {[1..n -> Patterns] : n \in 0..MaxRules}

\* handler._should_capture(request), with the proxy's options and rules as
\* they are read at lines 69-73; the call assigns to nothing.  One call is
\* looked at in a behaviour.
_should_capture_call ==
  /\ caller.pc = "ready"
  /\ caller.op = ""
  /\ \E method \in Methods, url \in AllUrls, ignore \in IgnoreSets,
        include \in RuleLists, exclude \in RuleLists :
       caller' = [Returned("_should_capture", "None")
                    EXCEPT !.arg = [method |-> method, url |-> url, ignore |-> ignore,
                                    include |-> include, exclude |-> exclude],
                           !.result = <<_should_capture(method, url, ignore,
                                                        include, exclude)>>]
  /\ UNCHANGED <<flow, log, options, include_urls, exclude_urls,
                 request_interceptor, response_interceptor, storage, master, calls>>

SpecFilter == Init /\ [][_should_capture_call]_vars

(***************************************************************************)
(* Claims.                                                                 *)
(***************************************************************************)
\* The step is the request hook of flow f.
RequestStep(f) ==
  /\ flow[f].pc \in {"requestheaders", "request_interceptor"}
  /\ flow'[f].pc \in {"request", "failed"}

\* The step is the response hook of flow f.
ResponseStep(f) ==
  /\ flow[f].pc \in {"responseheaders", "response_interceptor"}
  /\ flow'[f].pc \in {"response", "failed"}

\* The step is a websocket_message hook of flow f.
WebsocketStep(f) == Len(flow'[f].websocket) = Len(flow[f].websocket) + 1

\* The scope filter on the request of flow f as received, under the rules of
\* the current state.
ReceivedInScope(f) ==
  _should_capture(flow[f].received.method, flow[f].received.url,
                  options.ignore_http_methods, include_urls, exclude_urls)

\* The step calls save_request for flow f.
SavesRequest(f) == Len(log'[f].save_request) = Len(log[f].save_request) + 1

\* The step calls neither the store nor an interceptor for flow f.
NoCalls(f) == log'[f] = log[f] /\ storage' = storage

\* C1 (as claimed): at request-complete the request is persisted if and only
\* if the scope filter, on the method and URL as received and the rules then
\* in force, says in-scope; out of scope, neither the store nor the request
\* interceptor is called.
C1_PersistedIffInScope ==
  [][\A f \in Flows :
       RequestStep(f) =>
         /\ SavesRequest(f) <=> ReceivedInScope(f)
         /\ ~ReceivedInScope(f) => NoCalls(f)]_vars

\* C1 (amended): at request-complete the request is persisted if and only if
\* the scope filter says in-scope and the request interceptor, when one is
\* registered, returns without raising; out of scope, neither the store nor
\* the request interceptor is called.
C1_PersistedIffInScopeAndReturned ==
  [][\A f \in Flows :
       RequestStep(f) =>
         /\ SavesRequest(f) <=> (ReceivedInScope(f) /\ flow'[f].pc # "failed")
         /\ flow'[f].pc = "failed" =>
              /\ request_interceptor # NoInterceptor
              /\ log'[f].request_interceptor[Len(log'[f].request_interceptor)].raised
         /\ ~ReceivedInScope(f) => NoCalls(f)]_vars

\* C1 witness: under a non-empty rule set one flow was captured and another,
\* whose method is not ignored, went through request-complete uncaptured.
C1_Witness ==
  \E f, g \in Flows :
    /\ include_urls # <<>> \/ exclude_urls # <<>>
    /\ flow[f].pc = "request" /\ log[f].save_request # <<>>
    /\ flow[g].pc = "request" /\ log[g].save_request = <<>>
    /\ flow[g].received.method \notin options.ignore_http_methods

\* C2: over the lifecycle of a flow the request is persisted at most once and
\* the response at most once, under the flow's correlation id, and exactly
\* once each for an in-scope flow that has completed, mock flows included.
C2_ExactlyOncePerFlow ==
  \A f \in Flows :
    /\ Len(log[f].save_request) <= 1
    /\ Len(log[f].save_response) <= 1
    /\ \A i \in 1..Len(log[f].save_response) : log[f].save_response[i].id = flow[f].id
    /\ (flow[f].pc = "response" /\ flow[f].id # 0) =>
         Len(log[f].save_request) = 1 /\ Len(log[f].save_response) = 1

\* The record stored under an id, as a sequence of zero or one records.
Stored(id) == SelectSeq(storage.requests, LAMBDA r : r.id = id)

\* C3: a response is persisted only under the id that an earlier
\* save_request of the same flow returned, so never before the flow's request
\* record exists; a response attached in the store sits in the record of the
\* flow that saved it.
C3_ResponseUnderRequestId ==
  /\ \A f \in Flows :
       \A i \in 1..Len(log[f].save_response) :
         /\ log[f].save_request # <<>>
         /\ log[f].save_response[i].id = log[f].save_request[1].id
         /\ log[f].save_response[i].id = flow[f].id
  /\ \A k \in 1..Len(storage.requests) :
       storage.requests[k].response # <<>> =>
         \E f \in Flows :
           /\ log[f].save_request # <<>>
           /\ log[f].save_request[1].id = storage.requests[k].id
           /\ \E i \in 1..Len(log[f].save_response) :
                log[f].save_response[i].response = storage.requests[k].response[1]

\* C3 witness: two flows each have a response attached to their own record.
C3_Witness ==
  \A f \in Flows :
    /\ flow[f].pc = "response"
    /\ Stored(flow[f].id) # <<>>
    /\ Stored(flow[f].id)[1].response # <<>>

\* No two flows carry the same correlation id.
UniqueIds ==
  \A f, g \in Flows : (f # g /\ flow[f].id # 0 /\ flow[g].id # 0) => flow[f].id # flow[g].id

\* C4: correlation ids are unique, and the id attached to a flow is the one
\* save_request returned and is never changed or removed by a later hook,
\* interceptor call, store clear or hot swap.
C4_IdsUniqueAndImmutable ==
  [][/\ UniqueIds'
     /\ \A f \in Flows :
          /\ flow[f].id # 0 => flow'[f].id = flow[f].id
          /\ flow'[f].id # 0 =>
               /\ log'[f].save_request # <<>>
               /\ flow'[f].id = log'[f].save_request[1].id]_vars

\* C4 witness: two flows carry ids, the store was cleared after the first was
\* captured, and the upstream target was swapped.
C4_Witness ==
  /\ \A f \in Flows : flow[f].id # 0 /\ flow[f].pc = "response"
  /\ Stored(flow[1].id) = <<>>
  /\ Stored(flow[2].id) # <<>>
  /\ options.upstream_proxy # NoUpstream

\* The request interceptor ran for flow f, returned, and created no mock.
Intercepted(f) ==
  /\ log[f].request_interceptor # <<>>
  /\ ~log[f].request_interceptor[1].raised
  /\ log[f].mock = <<>>

\* C5 (as claimed): when the request interceptor mutates the request and
\* creates no mock, the persisted record and the live outgoing request both
\* carry the mutated method, URL, headers and body, and the original URL is
\* not persisted.
C5_PersistedAndLiveCarryMutation ==
  \A f \in Flows :
    Intercepted(f) =>
      LET original == log[f].request_interceptor[1].arg
          mutated == log[f].request_interceptor[1].result
      IN  /\ Len(log[f].save_request) = 1
          /\ log[f].save_request[1].request = mutated
          /\ mutated.url # original.url => log[f].save_request[1].request.url # original.url
          /\ flow[f].request.method = mutated.method
          /\ flow[f].request.url = mutated.url
          /\ flow[f].request.headers = mutated.headers
          /\ flow[f].request.raw_content = mutated.body

\* C5 (amended): the persisted record carries the mutated method, URL,
\* headers and body, never the original URL; the live outgoing request
\* carries the mutated method and body, the mutated URL with its first
\* "wss://" replaced by "https://", and the mutated headers with every value
\* rendered as a string.
C5_PersistedMutationLiveRewritten ==
  \A f \in Flows :
    Intercepted(f) =>
      LET original == log[f].request_interceptor[1].arg
          mutated == log[f].request_interceptor[1].result
      IN  /\ Len(log[f].save_request) = 1
          /\ log[f].save_request[1].request = mutated
          /\ mutated.url # original.url => log[f].save_request[1].request.url # original.url
          /\ flow[f].request.method = mutated.method
          /\ flow[f].request.url = replace_wss_once(mutated.url)
          /\ flow[f].request.headers = _to_headers_obj(mutated.headers)
          /\ flow[f].request.raw_content = mutated.body

\* C5 witness: an interceptor changed the URL of a captured request, and the
\* record with the new URL is in the store.
C5_Witness ==
  \E f \in Flows :
    /\ Intercepted(f)
    /\ log[f].request_interceptor[1].result.url # log[f].request_interceptor[1].arg.url
    /\ log[f].request_interceptor[1].result.method # log[f].request_interceptor[1].arg.method
    /\ Stored(flow[f].id) # <<>>
    /\ Stored(flow[f].id)[1].request.url = log[f].request_interceptor[1].result.url

\* s is a prefix of t.
IsPrefix(s, t) == Len(s) <= Len(t) /\ SubSeq(t, 1, Len(s)) = s

\* C6: when the request interceptor creates a mock response, the mock's
\* status, headers and body are in the live response slot when the request
\* hook returns, the request is never forwarded upstream, and the response
\* persisted under the request's correlation id equals the mock.
C6_MockShortCircuits ==
  \A f \in Flows :
    log[f].mock # <<>> =>
      LET mock == log[f].mock[1]
      IN  /\ flow[f].pc = "request" =>
               /\ flow[f].response # <<>>
               /\ flow[f].response[1].status_code = mock.status_code
               /\ flow[f].response[1].raw_content = mock.body
               /\ IsPrefix(mock.headers, flow[f].response[1].headers)
          /\ log[f].upstream = 0
          /\ flow[f].id # 0
          /\ Stored(flow[f].id) # <<>> => Stored(flow[f].id)[1].response = <<mock>>

\* C7: a request whose method is in the ignored-methods set is never
\* persisted and never passed to the request interceptor, whatever its URL
\* and the include and exclude lists.
C7_IgnoredMethodNeverCaptured ==
  \A f \in Flows :
    flow[f].received.method \in options.ignore_http_methods =>
      /\ log[f].save_request = <<>>
      /\ log[f].request_interceptor = <<>>
      /\ flow[f].id = 0

\* C7 witness: an OPTIONS request went through request-complete and
\* response-complete while a request interceptor was registered and the
\* rules excluded nothing.
C7_Witness ==
  \E f \in Flows :
    /\ flow[f].received.method = "OPTIONS"
    /\ flow[f].pc = "response"
    /\ request_interceptor # NoInterceptor
    /\ calls = 1
    /\ exclude_urls = <<>>
    /\ log[f].save_request = <<>>

\* The pattern matches every URL.
IsCatchAll(p) == \A u \in AllUrls : ReMatch(p, u)

\* The exclude list holds a catch-all pattern.
ExcludesEverything == \E i \in 1..Len(exclude_urls) : IsCatchAll(exclude_urls[i])

\* C8: a proxy constructed with disable_capture starts with an empty include
\* list and the catch-all exclude list; and while the exclude list holds a
\* pattern that matches every URL, no hook persists a request, whatever the
\* include list and the request URL.
C8_CatchAllExcludePersistsNothing ==
  /\ options.disable_capture => (include_urls = <<>> /\ exclude_urls = <<P_catchall>>)
  /\ [][ExcludesEverything =>
          /\ \A f \in Flows : log'[f].save_request = log[f].save_request
          /\ Len(storage'.requests) <= Len(storage.requests)]_vars

\* C8 witness: with a catch-all exclude and an include pattern that matches
\* its URL, a request whose method is not ignored went through
\* request-complete and the store is empty.
C8_Witness ==
  \E f \in Flows :
    /\ ExcludesEverything
    /\ \E i \in 1..Len(include_urls) : ReMatch(include_urls[i], flow[f].received.url)
    /\ flow[f].pc = "request"
    /\ flow[f].received.method \notin options.ignore_http_methods
    /\ storage.requests = <<>>

\* C9: for a flow without a correlation id, the response hook and the
\* websocket_message hook call neither the store nor the response
\* interceptor, and leave the live response and the missing id as they are.
C9_NoIdNoEffect ==
  [][\A f \in Flows :
       (flow[f].id = 0 /\ (ResponseStep(f) \/ WebsocketStep(f))) =>
         /\ NoCalls(f)
         /\ flow'[f].response = flow[f].response
         /\ flow'[f].id = 0]_vars

\* C9 witness: an uncaptured upgraded flow went through response-complete
\* and a WebSocket message while a response interceptor was registered.
C9_Witness ==
  \E f \in Flows :
    /\ flow[f].id = 0
    /\ flow[f].pc = "response"
    /\ flow[f].websocket # <<>>
    /\ response_interceptor # NoInterceptor
    /\ log[f].response_interceptor = <<>>
    /\ log[f].save_response = <<>>
    /\ log[f].save_ws_message = <<>>

C11_WrongArityRejectedAtRegistration ==
  /\ [](response_interceptor # NoInterceptor => parameters(response_interceptor) = 2)
  /\ [](\A f \in Flows : \A i \in 1..Len(log[f].response_interceptor) :
          parameters(log[f].response_interceptor[i].interceptor) = 2)
  /\ []((caller.op = "response_interceptor" /\ caller.arg # NoInterceptor) =>
          (caller.raised = "RuntimeError" <=> parameters(caller.arg) # 2))
  /\ [][(flow' = flow /\ caller'.raised = "RuntimeError") =>
          /\ response_interceptor' = response_interceptor
          /\ log' = log
          /\ storage' = storage]_vars

\* C11 witness: the assignment of a one-parameter callable was rejected
\* while a two-parameter interceptor was registered, and a response hook
\* called the registered one.
C11_Witness ==
  \E f \in Flows :
    /\ caller.op = "response_interceptor"
    /\ caller.arg = "lambda res"
    /\ caller.raised = "RuntimeError"
    /\ response_interceptor = "callable"
    /\ log[f].response_interceptor # <<>>
    /\ flow[f].pc = "response"

\* The request interceptor raised in the request hook of flow f.
RequestInterceptorRaised(f) ==
  log[f].request_interceptor # <<>> /\ log[f].request_interceptor[1].raised

\* The response interceptor raised in the response hook of flow f.
ResponseInterceptorRaised(f) ==
  log[f].response_interceptor # <<>> /\ log[f].response_interceptor[1].raised

\* C12: an exception of an interceptor ends the hook of its own flow and
\* nothing else.  After the request interceptor raised, nothing is persisted
\* for the flow, it has no id and its live request is as it was before the
\* hook; after the response interceptor raised, no response is persisted for
\* the flow; the raising step leaves every other flow, and the store,
\* untouched.
C12_InterceptorExceptionConfined ==
  /\ [](\A f \in Flows :
          /\ RequestInterceptorRaised(f) =>
               /\ flow[f].pc = "failed"
               /\ flow[f].id = 0
               /\ log[f].save_request = <<>> /\ log[f].save_response = <<>>
               /\ log[f].save_ws_message = <<>> /\ log[f].save_har_entry = <<>>
          /\ ResponseInterceptorRaised(f) =>
               /\ flow[f].pc = "failed"
               /\ log[f].save_response = <<>>)
  /\ [][\A f \in Flows :
          (flow[f].pc # "failed" /\ flow'[f].pc = "failed") =>
            /\ RequestInterceptorRaised(f)' \/ ResponseInterceptorRaised(f)'
            /\ flow'[f].request = flow[f].request
            /\ storage' = storage
            /\ \A g \in Flows \ {f} : flow'[g] = flow[g] /\ log'[g] = log[g]]_vars

\* C13: while the interceptor called for one flow is running, the hook that
\* another flow is waiting for can be run.
C13_SlowInterceptorStallsOnlyItsFlow ==
  \A f, g \in Flows :
    (f # g /\ Running(f)) =>
      /\ flow[g].pc = "idle" => ENABLED requestheaders(g)
      /\ flow[g].pc = "requestheaders" => ENABLED request(g)
      /\ flow[g].pc = "request" => ENABLED responseheaders(g)
      /\ flow[g].pc = "responseheaders" => ENABLED response(g)

\* The step is a call of update_server_mode that found the proxy listening.
SwapCall ==
  caller.pc = "ready" /\ caller'.pc = "start" /\ caller'.op = "update_server_mode"

\* The step is the return of that call.
SwapReturn ==
  caller.pc = "start" /\ caller.op = "update_server_mode" /\ caller'.pc = "ready"

C15_SwapChangesOnlyEngineAndUpstream ==
  [][/\ SwapCall =>
          /\ storage' = storage
          /\ include_urls' = include_urls /\ exclude_urls' = exclude_urls
          /\ request_interceptor' = request_interceptor
          /\ response_interceptor' = response_interceptor
          /\ options' = [options EXCEPT !.upstream_proxy = caller'.arg]
     /\ SwapReturn => UNCHANGED <<storage, include_urls, exclude_urls, options,
                                  request_interceptor, response_interceptor>>]_vars

\* C15 (amended): update_server_mode leaves the store, the include and
\* exclude lists and both interceptors as they are; of the options the
\* upstream target changes, and host and port become the address the proxy
\* was listening on.
C15_SwapChangesEngineUpstreamAndListenOptions ==
  [][/\ SwapCall =>
          /\ storage' = storage
          /\ include_urls' = include_urls /\ exclude_urls' = exclude_urls
          /\ request_interceptor' = request_interceptor
          /\ response_interceptor' = response_interceptor
          /\ options' = [options EXCEPT !.upstream_proxy = caller'.arg,
                                        !.host = master.servers[1][1],
                                        !.port = master.servers[1][2]]
     /\ SwapReturn => UNCHANGED <<storage, include_urls, exclude_urls, options,
                                  request_interceptor, response_interceptor>>]_vars

\* C15 witness: the swap returned with a record in the store, a rule and
\* both interceptors in place.
C15_Witness ==
  /\ caller.pc = "ready" /\ caller.op = "update_server_mode"
  /\ caller.raised = "None"
  /\ options.upstream_proxy # NoUpstream
  /\ storage.requests # <<>>
  /\ request_interceptor # NoInterceptor

\* The step persists nothing for flow f.
PersistsNothing(f) ==
  /\ log'[f].save_request = log[f].save_request
  /\ log'[f].save_response = log[f].save_response
  /\ log'[f].save_ws_message = log[f].save_ws_message
  /\ log'[f].save_har_entry = log[f].save_har_entry

\* C16: a flow that was in flight when update_server_mode began is
\* abandoned: once the call has returned, no hook of that flow persists a
\* request, a response, a WebSocket message or a HAR entry.
C16_InFlightFlowsAbandoned ==
  [][\A f \in Flows :
       (log[f].abandoned /\ caller.pc = "ready") => PersistsNothing(f)]_vars

\* The engine instance holds a listening socket: its run() has bound one and
\* it has not been shut down since.
Listening ==
  /\ master.phase \in {"setup", "running"}
  /\ ~master.bind_error
  /\ ~master.should_exit

\* The step is a call by the caller's thread that ends as operation op.
CallOf(op) == caller.pc = "ready" /\ flow' = flow /\ caller'.op = op

\* C17: address returns the bound (host, port) exactly while the engine is
\* listening and raises the not-running error otherwise (never started,
\* bind failed, shut down); update_server_mode called while not listening
\* raises the same error and changes neither the engine instance nor the
\* options.
C17_NotRunningError ==
  /\ [](Listening <=> address(master) # <<>>)
  /\ [](Listening =>
          /\ address(master)[1] = options.host
          /\ address(master)[2] \in
               (IF options.port = DefaultPort THEN EphemeralPorts ELSE {options.port}))
  /\ [][CallOf("address") =>
          /\ caller'.raised = (IF Listening THEN "None" ELSE NotRunning)
          /\ Listening => caller'.address = master.servers[1]]_vars
  /\ [][(CallOf("update_server_mode") /\ ~Listening) =>
          /\ caller'.pc = "ready"
          /\ caller'.raised = NotRunning
          /\ UNCHANGED <<master, options, storage>>]_vars

\* C17 witness: after a shutdown of a proxy that had been running,
\* update_server_mode raised the not-running error.
C17_Witness ==
  /\ caller.pc = "ready" /\ caller.op = "update_server_mode"
  /\ caller.raised = NotRunning
  /\ master.phase = "running" /\ master.should_exit
  /\ storage.cleaned
  /\ options.upstream_proxy = NoUpstream

\* C18: start() returns only when the engine reports that it is running,
\* however long that takes; and once the engine reports running, the call
\* that is polling for it returns.
C18_StartReturnsWhenRunning ==
  /\ [][(caller.pc = "start" /\ caller'.pc = "ready") => master.phase = "running"]_vars
  /\ [](caller.pc = "start" => caller.raised = "None")
  /\ ((caller.pc = "start" /\ master.phase = "running") ~> caller.pc = "ready")

\* C18 witness: start() has returned and the engine is running and
\* listening on a port the operating system assigned.
C18_Witness ==
  /\ caller.pc = "ready" /\ caller.op = "start"
  /\ master.phase = "running"
  /\ master.servers # <<>>
  /\ master.servers[1][2] \in EphemeralPorts

\* C19: when the configured listen address is in use, start() does not
\* return as a call that succeeded: it ends with an error, and that error is
\* not the not-running error.
C19_BindErrorDistinguishable ==
  (caller.op = "start" /\ caller.pc = "ready" /\ master.bind_error)
    => caller.raised \notin {"None", NotRunning}

\* C20: shutdown() stops the engine and releases its listening servers, then
\* tells the store to clean up, each once per call and in that order; once
\* the servers are released no new connection is accepted; the store is
\* never cleaned up while the engine still listens.
C20_ShutdownStopsEngineThenStore ==
  /\ [][(caller.pc = "shutdown" /\ caller'.pc = "ready")
          => /\ master.should_exit /\ master.servers = <<>>
             /\ master' = master
             /\ storage'.cleaned
             /\ caller'.events = <<"master.shutdown", "servers.update", "storage.cleanup">>]_vars
  /\ [][(caller.pc = "ready" /\ caller'.pc = "shutdown")
          => /\ master'.should_exit /\ master'.servers = <<>>
             /\ storage' = storage]_vars
  /\ [](storage.cleaned => master.servers = <<>>)
  /\ [][\A f \in Flows :
          (flow[f].pc = "idle" /\ flow'[f].pc # "idle") => master.servers # <<>>]_vars

\* C20 witness: shutdown() has returned on an engine that was running and
\* had accepted a connection; a second connection was never accepted.
C20_Witness ==
  /\ caller.op = "shutdown" /\ caller.pc = "ready"
  /\ master.phase = "running" /\ ~master.bind_error
  /\ storage.cleaned
  /\ \E f \in Flows : flow[f].pc # "idle"
  /\ \E f \in Flows : flow[f].pc = "idle"

\* C21: on a flow with a correlation id, after the k-th WebSocket message
\* event the handler has persisted exactly k messages under that id, one per
\* observed message, in observation order, each with the message's
\* direction, content and recorded time.
C21_EachWsMessagePersistedOnce ==
  \A f \in Flows :
    has_id(flow[f]) =>
      /\ log[f].save_ws_message =
           [i \in 1..Len(flow[f].websocket) |-> WebSocketMessage(flow[f].websocket[i])]
      /\ IndexOf(storage, flow[f].id) # 0 =>
           Len(storage.requests[IndexOf(storage, flow[f].id)].ws_messages)
             <= Len(flow[f].websocket)

\* The step calls save_har_entry once for flow f, under the flow's id, with
\* the entry derived from the flow as the hook leaves it.
SavesHarEntry(f) ==
  log'[f].save_har_entry =
    Append(log[f].save_har_entry,
           [id |-> flow[f].id, entry |-> create_har_entry(flow'[f])])

\* C22 (as claimed): at response-complete of a captured flow a HAR entry is
\* persisted under the request's id if and only if HAR capture is enabled,
\* at most one per flow; with HAR capture disabled none is ever persisted.
C22_HarEntryIffEnabled ==
  /\ [][\A f \in Flows :
          (ResponseStep(f) /\ flow[f].id # 0) =>
            IF options.enable_har
            THEN SavesHarEntry(f)
            ELSE log'[f].save_har_entry = log[f].save_har_entry]_vars
  /\ [](\A f \in Flows :
          /\ Len(log[f].save_har_entry) <= 1
          /\ ~options.enable_har => log[f].save_har_entry = <<>>)

\* C22 (amended): as claimed, but the entry is persisted only when the
\* response interceptor, if one is registered, returns without raising.
C22_HarEntryIffEnabledAndReturned ==
  /\ [][\A f \in Flows :
          (ResponseStep(f) /\ flow[f].id # 0) =>
            IF options.enable_har /\ flow'[f].pc # "failed"
            THEN SavesHarEntry(f)
            ELSE log'[f].save_har_entry = log[f].save_har_entry]_vars
  /\ [][\A f \in Flows :
          (ResponseStep(f) /\ flow'[f].pc = "failed") =>
            /\ response_interceptor # NoInterceptor
            /\ log'[f].response_interceptor[Len(log'[f].response_interceptor)].raised]_vars
  /\ [](\A f \in Flows :
          /\ Len(log[f].save_har_entry) <= 1
          /\ ~options.enable_har => log[f].save_har_entry = <<>>)

\* C22 witness: with HAR capture enabled one flow completed with its HAR
\* entry persisted under its id and another lost its entry to an interceptor
\* that raised.
C22_Witness ==
  /\ options.enable_har
  /\ \E f, g \in Flows :
       /\ flow[f].pc = "response" /\ flow[f].id # 0
       /\ Len(log[f].save_har_entry) = 1
       /\ log[f].save_har_entry[1].id = flow[f].id
       /\ flow[g].pc = "failed" /\ flow[g].id # 0
       /\ log[g].save_har_entry = <<>>

\* The step is the return of wait_for_request, with a request or with an
\* exception.
WaitReturns == caller.pc = "wait_for_request" /\ caller'.pc = "ready"

\* C23: wait_for_request always terminates; it returns the first non-empty
\* result of find(pat) without querying again; it raises TimeoutException
\* only when the elapsed time has reached the timeout, every query having
\* returned none and been followed by one sleep interval, and only after at
\* least one query was made.
C23_WaitTerminatesAfterQuery ==
  /\ [][WaitReturns =>
          IF caller'.raised = "None"
          THEN /\ caller'.result # <<>>
               /\ caller'.result = find(storage, caller.wait.pat)
               /\ caller'.wait.finds = caller.wait.finds + 1
          ELSE /\ caller'.raised = TimeoutException
               /\ caller.wait.elapsed >= caller.wait.timeout
               /\ caller.wait.elapsed = caller.wait.finds
               /\ caller'.wait = caller.wait
               /\ caller.wait.finds >= 1]_vars
  /\ (caller.pc = "wait_for_request" ~> caller.pc = "ready")

Matches(k) == ReSearch(caller.wait.pat, storage.requests[k].request.url)

\* The stored request at position k has its response attached.
Answered(k) == storage.requests[k].response # <<>>

\* The step is a store query of wait_for_request that returned none.
FindsNone ==
  /\ caller.pc = "wait_for_request"
  /\ caller'.wait.finds = caller.wait.finds + 1
  /\ caller'.pc = "wait_for_request"

C26_ClearIsIdempotent ==
  /\ [][CallOf("del requests") => storage'.requests = <<>>]_vars
  /\ [][(storage.requests = <<>> /\ storage'.requests # <<>>) =>
          \E f \in Flows : RequestStep(f) /\ SavesRequest(f)]_vars
  /\ [][(CallOf("last_request") /\ storage.requests = <<>>) =>
          caller'.result = <<>>]_vars
  /\ [][(CallOf("requests") /\ storage.requests = <<>>) =>
          caller'.result = <<>>]_vars
  /\ [][(CallOf("last_request") /\ storage.requests # <<>>) =>
          caller'.result = <<storage.requests[Len(storage.requests)]>>]_vars

\* C26 witness: requests were captured and cleared, and the last-request
\* query that followed returned none.
C26_Witness ==
  /\ caller.pc = "ready" /\ caller.op = "last_request"
  /\ caller.result = <<>>
  /\ storage.requests = <<>>
  /\ \A f \in Flows : log[f].save_request # <<>>

\* The lists that assigning one of `args` leaves behind: a lone string as a
\* one-element list, a sequence as it is.
Assigned(args) == {IF a.str THEN <<a.v>> ELSE a.v : a \in args}

Named(url) ==
  IF url = <<>> THEN <<>>
  ELSE <<CHOOSE t \in UpstreamTargets : UpstreamUrl(t) = url>>

\* C28: the derivation yields at most one upstream target: none without a
\* configuration or with both fields empty, the single target given, the
\* https target when both are given with equal host:port, and an error when
\* their host:port differ; credentials user:password are produced if and
\* only if the chosen target embeds a non-empty user name, with whatever
\* password it embeds, an empty or missing one giving "user:".
C28_UpstreamDerivation ==
  caller.op = "get_mitm_upstream_proxy_args" =>
    LET none == caller.arg.upstream_proxy = <<>>
        http == IF none THEN <<>> ELSE Named(caller.arg.upstream_proxy[1].http)
        https == IF none THEN <<>> ELSE Named(caller.arg.upstream_proxy[1].https)
        both == http # <<>> /\ https # <<>>
        chosen == IF https # <<>> THEN https ELSE http
        mode == caller.result.mode
        auth == caller.result.upstream_auth
    IN  IF both /\ http[1].hostport # https[1].hostport
        THEN caller.raised = "ValueError" /\ caller.result = NoArgs
        ELSE /\ caller.raised = "None"
             /\ IF chosen = <<>>
                THEN caller.result = NoArgs
                ELSE /\ mode = <<"upstream:", chosen[1].scheme, "://",
                                 chosen[1].hostport>>
                     /\ auth # <<>> <=> chosen[1].username \notin {Absent, ""}
                     /\ auth # <<>> =>
                          auth = <<chosen[1].username, ":",
                                   IF chosen[1].password = Absent THEN ""
                                   ELSE chosen[1].password>>

\* C29: with no upstream proxy configured, the upstream target is the one
\* that the environment provides, and the proxy runs in direct mode (no
\* upstream arguments) only when the environment provides none.
C29_EnvironmentUpstream ==
  (caller.op = "get_mitm_upstream_proxy_args" /\ caller.arg.upstream_proxy = <<>>) =>
    /\ caller.raised = "None"
    /\ IF caller.arg.environ = <<>>
       THEN caller.result = NoArgs
       ELSE caller.result.mode =
              <<"upstream:", caller.arg.environ[1], "://",
                caller.arg.environ[Len(caller.arg.environ)]>>

\* The response snapshot that the response hook of flow f built in this
\* step: what it handed to the interceptor, or without one what it persisted.
Snapshot(f) ==
  IF response_interceptor # NoInterceptor
  THEN log'[f].response_interceptor[Len(log'[f].response_interceptor)].arg
  ELSE log'[f].save_response[Len(log'[f].save_response)].response

\* C30: the response snapshot built at response-complete has every header
\* pair of the live response, in the original order and with duplicates,
\* and the live status, reason and body and the certificate list of the
\* server connection.
C30_ResponseSnapshotComplete ==
  [][\A f \in Flows :
       (ResponseStep(f) /\ flow[f].id # 0) =>
         LET live == flow[f].response[1]
         IN  /\ Snapshot(f).status_code = live.status_code
             /\ Snapshot(f).reason = live.reason
             /\ Snapshot(f).body = live.raw_content
             /\ Snapshot(f).certificate_list = flow[f].certificate_list
             /\ Len(Snapshot(f).headers) = Len(live.headers)
             /\ \A i \in 1..Len(live.headers) :
                  Snapshot(f).headers[i] = live.headers[i]]_vars

\* C30 witness: a response with two Set-Cookie headers and a server
\* certificate was persisted with both headers and the certificate.
C30_Witness ==
  \E f \in Flows :
    /\ flow[f].pc = "response" /\ flow[f].id # 0
    /\ Len(log[f].save_response) = 1
    /\ log[f].save_response[1].response.headers = H_resp
    /\ log[f].save_response[1].response.certificate_list = <<"cert">>
    /\ log[f].save_response[1].response.status_code = 200

\* C31: with no interceptor registered, a captured request that is persisted
\* and loaded back (driver.requests) has the method, URL and body of the
\* live request at request-complete (empty bytes for an absent body) and the
\* same ordered list of header pairs, duplicates included.
C31_RoundTripPreservesRequest ==
  (caller.pc = "ready" /\ caller.op = "requests") =>
    \A k \in 1..Len(caller.result) :
      \A f \in Flows :
        flow[f].id = caller.result[k].id =>
          LET live == flow[f].request
              loaded == caller.result[k].request
          IN  /\ loaded.method = live.method
              /\ loaded.url = live.url
              /\ loaded.body = (IF live.raw_content = NoBody THEN "" ELSE live.raw_content)
              /\ Len(loaded.headers) = Len(live.headers)
              /\ \A i \in 1..Len(loaded.headers) :
                   i <= Len(live.headers) => loaded.headers[i] = live.headers[i]

\* The number of requests captured so far, and how many of them a store
\* bounded by its maxsize still holds.
Captured == storage.next_id - 1
Kept == IF Captured < storage.maxsize[1] THEN Captured ELSE storage.maxsize[1]

\* The record of flow f has been evicted.
Evicted(f) == flow[f].id # 0 /\ Stored(flow[f].id) = <<>>

\* C32: with a size bound N on the in-memory store, after any sequence of
\* captures the store holds at most N records and they are the N most
\* recently captured, in capture order; an evicted record is gone as a
\* unit: a response, WebSocket message or HAR entry saved for it afterwards
\* leaves the store as it is.
C32_StoreHoldsMostRecent ==
  [][/\ Len(storage'.requests) <= storage'.maxsize[1]
     /\ Len(storage'.requests) = Kept'
     /\ \A k \in 1..Len(storage'.requests) :
          storage'.requests[k].id = Captured' - Kept' + k
     /\ \A f \in Flows :
          (Evicted(f) /\ (ResponseStep(f) \/ WebsocketStep(f))) => storage' = storage]_vars

\* C32 witness: with N = 1 three requests were captured one after the
\* other, a flow whose record was evicted has had its response saved, and
\* the caller reads driver.requests and gets the third alone.
C32_Witness ==
  /\ storage.maxsize = <<1>>
  /\ Captured = 3
  /\ caller.pc = "ready" /\ caller.op = "requests"
  /\ Len(caller.result) = 1
  /\ caller.result[1].id = 3
  /\ \E f \in Flows : Evicted(f) /\ log[f].save_response # <<>>

\* Some pattern of the list matches the URL.
MatchesAny(list, url) == \E i \in 1..Len(list) : ReMatch(list[i], url)

\* The first step of the six-step reference that applies to the arguments.
ReferenceStep(a) ==
  CASE a.method \in a.ignore -> 1
    [] a.include = <<>> /\ a.exclude = <<>> -> 2
    [] \E i \in 1..Len(a.exclude) : IsCatchAll(a.exclude[i]) -> 3
    [] a.include # <<>> /\ ~MatchesAny(a.include, a.url) -> 4
    [] MatchesAny(a.exclude, a.url) -> 5
    [] OTHER -> 6

\* C33: for every method, URL and rule set the scope decision is that of
\* the six-step ordered reference (in scope at steps 2 and 6, out at the
\* others); a URL that matches both an include and an exclude pattern is
\* out of scope; and the decision changes no state of the proxy.
C33_ScopeDecisionIsReference ==
  /\ [](caller.op = "_should_capture" =>
          /\ caller.result[1] <=> ReferenceStep(caller.arg) \in {2, 6}
          /\ (MatchesAny(caller.arg.include, caller.arg.url)
              /\ MatchesAny(caller.arg.exclude, caller.arg.url)) => ~caller.result[1])
  /\ [][caller'.op = "_should_capture" =>
          UNCHANGED <<flow, log, options, include_urls, exclude_urls,
                      request_interceptor, response_interceptor, storage, master>>]_vars

\* C33 witness: a request whose method is not ignored and whose URL matches
\* an include pattern and an exclude pattern that is no catch-all was
\* decided out of scope.
C33_Witness ==
  /\ caller.op = "_should_capture"
  /\ caller.arg.method \notin caller.arg.ignore
  /\ MatchesAny(caller.arg.include, caller.arg.url)
  /\ MatchesAny(caller.arg.exclude, caller.arg.url)
  /\ \A i \in 1..Len(caller.arg.exclude) : ~IsCatchAll(caller.arg.exclude[i])
  /\ ReferenceStep(caller.arg) = 5
  /\ ~caller.result[1]

\* The step is the requestheaders hook of flow f.
RequestHeadersStep(f) == flow[f].pc = "idle" /\ flow'[f].pc = "requestheaders"

\* The step is the responseheaders hook of flow f.
ResponseHeadersStep(f) == flow[f].pc = "request" /\ flow'[f].pc = "responseheaders"

\* The scope filter on a live request under the rules of the current state.
LiveInScope(r) ==
  _should_capture(r.method, r.url, options.ignore_http_methods, include_urls, exclude_urls)

\* The streaming setting of the response of flow f as the engine hands it to
\* the responseheaders hook: that of the upstream server's response, or of
\* the response the request hook put into the flow.
EngineResponseStreams(f) ==
  IF flow[f].response = <<>> THEN {up.stream : up \in UpstreamResponses}
  ELSE {flow[f].response[1].stream}

\* C34: at the request-headers event the flow's request stops being
\* streamed if its request is in scope under the rules then in force, and
\* keeps the streaming setting the engine gave it if not; likewise the
\* flow's response at the response-headers event.
C34_StreamingDisabledIffInScope ==
  [][\A f \in Flows :
       /\ RequestHeadersStep(f) =>
            IF LiveInScope(flow'[f].received)
            THEN flow'[f].request.stream = FALSE
            ELSE flow'[f].request.stream = flow'[f].received.stream
       /\ ResponseHeadersStep(f) =>
            /\ flow'[f].request = flow[f].request
            /\ IF LiveInScope(flow[f].request)
               THEN flow'[f].response[1].stream = FALSE
               ELSE flow'[f].response[1].stream \in EngineResponseStreams(f)]_vars

\* C34 witness: one flow was streamed by the engine and is buffered after
\* both header events; another, out of scope at both, is still streamed in
\* both directions.
C34_Witness ==
  \E f, g \in Flows :
    /\ flow[f].pc = "responseheaders" /\ flow[g].pc = "responseheaders"
    /\ flow[f].received.stream
    /\ ~flow[f].request.stream /\ ~flow[f].response[1].stream
    /\ flow[g].received.method \notin options.ignore_http_methods
    /\ flow[g].request.stream /\ flow[g].response[1].stream

\* The step is the first half of update_server_mode: the address is read and
\* the engine shut down.
SwapShutdownStep == caller.pc = "ready" /\ caller'.pc = "update_server_mode"

\* The step is the second half: the new instance is built and submitted.
SwapRestartStep == caller.pc = "update_server_mode" /\ caller'.pc = "start"

\* C35: update_server_mode reads the bound address first, then stops the
\* old engine instance and releases its listening servers, and only then
\* constructs and starts the new instance; two instances never listen at
\* the same time, and the new one is not started, and binds nothing, while
\* the old one holds the socket.
C35_SwapStopsOldBeforeNew ==
  /\ [][/\ SwapShutdownStep =>
             /\ master.servers # <<>>
             /\ caller'.address = master.servers[1]
             /\ master'.should_exit /\ master'.servers = <<>>
             /\ master'.phase = master.phase /\ master'.upstream = master.upstream
        /\ SwapRestartStep =>
             /\ master.should_exit /\ master.servers = <<>>
             /\ ~master'.should_exit
             /\ master'.phase = "scheduled" /\ master'.servers = <<>>
             /\ <<master'.listen_host, master'.listen_port>> = caller.address
        /\ (caller'.op = "update_server_mode" /\ master'.phase = "scheduled"
            /\ master.phase # "scheduled") => SwapRestartStep
        /\ (master.servers = <<>> /\ master'.servers # <<>>) =>
             master.old_servers = <<>>]_vars
  /\ [](~(master.servers # <<>> /\ master.old_servers # <<>>))
  /\ [](caller.pc = "update_server_mode" => master.servers = <<>>)

\* C35 witness: update_server_mode has returned, and the new instance runs
\* and listens alone on the address that was read from the old one.
C35_Witness ==
  /\ caller.pc = "ready" /\ caller.op = "update_server_mode"
  /\ caller.raised = "None"
  /\ caller.arg # NoUpstream
  /\ master.phase = "running" /\ ~master.should_exit
  /\ master.upstream = caller.arg
  /\ master.servers = <<caller.address>>
  /\ master.old_servers = <<>>

\* The URL with a leading "wss://" scheme replaced by "https://", and
\* nothing else changed.
RewriteScheme(url) ==
  IF url # <<>> /\ Head(url) = "wss://" THEN <<"https://">> \o Tail(url) ELSE url

\* C36: when the request interceptor ran and created no mock, the URL of
\* the live outgoing request is the snapshot's URL with a "wss://" scheme
\* rewritten to "https://": only the scheme is rewritten, and a URL without
\* that scheme is written back unchanged.
C36_OnlySchemeRewritten ==
  \A f \in Flows :
    Intercepted(f) =>
      flow[f].request.url = RewriteScheme(log[f].request_interceptor[1].result.url)

\* C37: for every flow whose request is persisted, streaming of the request
\* was off when its request-headers event was over, so that the body that
\* is captured is the buffered body, however the caller's include and
\* exclude updates interleave with the flow's two request events.
C37_PersistedRequestWasBuffered ==
  \A f \in Flows : log[f].save_request # <<>> => ~flow[f].request.stream

\* C38: for every flow that carries a correlation id, streaming of the
\* response is off when the response-headers event is over, so that the
\* response persisted later is the buffered one, also when the request
\* interceptor rewrote the live request to a method or URL that is out of
\* scope.
C38_ResponseOfCapturedFlowBuffered ==
  [][\A f \in Flows :
       (ResponseHeadersStep(f) /\ flow[f].id # 0) => ~flow'[f].response[1].stream]_vars

\* The step is a call of update_server_mode that the upstream derivation
\* made fail.
RejectedSwap ==
  /\ caller.pc = "ready"
  /\ caller' # caller
  /\ caller'.op = "update_server_mode"
  /\ caller'.raised = "ValueError"

\* C39: update_server_mode with a rejected upstream configuration (http and
\* https targets with different host:port) fails before the running engine
\* is stopped: afterwards the proxy listens on the same address with its
\* previous upstream configuration, and the manager's state is unchanged.
C39_FailedSwapChangesNothing ==
  [][RejectedSwap =>
       /\ master' = master
       /\ master'.servers = <<caller'.address>>
       /\ options' = options
       /\ UNCHANGED <<storage, include_urls, exclude_urls,
                      request_interceptor, response_interceptor>>]_vars

\* C40: for a proxy constructed with the disable-capture option no request
\* is ever persisted, whatever include and exclude assignments, deletions
\* and hot swaps the caller performs afterwards.
C40_DisableCapturePersistsNothing ==
  options.disable_capture =>
    /\ storage.requests = <<>>
    /\ \A f \in Flows : log[f].save_request = <<>>

====
